---- MODULE Spec2Model ----
(***************************************************************************)
(* Turbo Agent control plane: the resilient HTTP client                    *)
(* (turbo/agent/http.py), the hook pipeline (turbo/agent/hooks.py) and the *)
(* tool handlers (turbo/agent/tools.py), as one state machine.             *)
(*                                                                         *)
(* Time is the monotonic clock in whole seconds.  A coroutine runs without *)
(* interruption between two suspension points; the suspension points are   *)
(* the HTTP round trip (client.request) and the backoff sleep              *)
(* (asyncio.sleep).  An uncontended asyncio.Lock is acquired without       *)
(* suspending, and no lock of hooks.py is held across an await.            *)
(***************************************************************************)
EXTENDS Integers, Sequences, FiniteSets, TLC

VARIABLES
    clock,                  \* time.monotonic(), seconds
    max_retries,            \* TurboHTTPClient._max_retries
    circuit_threshold,      \* TurboHTTPClient._circuit_threshold
    circuit_timeout,        \* TurboHTTPClient._circuit_timeout
    consecutive_failures,   \* TurboHTTPClient._consecutive_failures
    circuit_open_until,     \* TurboHTTPClient._circuit_open_until: {} is None, {t} a deadline
    transport,              \* TurboHTTPClient._client: "none" or "open"
    hc,                     \* per slot: the _request call in flight
    ncalls,                 \* number of calls the environment has made so far
    failed_streak,          \* history: calls in a row that ended on a non-retryable response
    attempts,               \* history: the round trips of the latest direct call
    MAX_CALLS_PER_MINUTE,   \* hooks.MAX_CALLS_PER_MINUTE (TURBO_AGENT_RATE_LIMIT at import)
    _call_timestamps,       \* hooks._call_timestamps: tool name -> deque of timestamps
    admitted,               \* per tool name, every timestamp the rate limiter appended
    rate_result,            \* outcome of the latest direct rate_limit_tool_calls call
    env_allowed,            \* os.environ["TURBO_ALLOWED_PROJECT_IDS"], split at ","
    _issue_project_cache,   \* hooks._issue_project_cache: issue id -> project id ("" absent)
    audit_log,              \* every line handed to the audit logger, in order
    audit_files,            \* the audit log on disk: the live file, then backups .1, .2, ...
    inv,                    \* per slot: the tool invocation in flight
    agent,                  \* the TurboAgent constructed last and how the last construction ended
    session,                \* the _TurboSession of the agent: _client, and how its last call ended
    llm,                    \* the LLM runtime: the options it was given, its opens, closes, queries
    returned,               \* the messages of the latest run or send, and the text it returned
    _default_client,        \* http._default_client: FALSE is None, TRUE the client above
    closes,                 \* the latest close() or close_http_client() call, and the aclose() calls so far
    direct                  \* the latest direct call of a helper: its name, input and output

clientVars == <<max_retries, circuit_threshold, circuit_timeout,
                consecutive_failures, circuit_open_until, transport>>

httpVars == <<clientVars, hc>>

rateVars == <<MAX_CALLS_PER_MINUTE, _call_timestamps, admitted>>

hookVars == <<env_allowed, _issue_project_cache, audit_log, audit_files>>

agentVars == <<agent, session, llm, returned>>

libVars == <<_default_client, closes, direct>>

vars == <<clock, httpVars, ncalls, failed_streak, attempts, rateVars, rate_result, hookVars, inv,
          agentVars, libVars>>

----------------------------------------------------------------------------
(* Bounds of the model *)

MaxClock == 6
MaxCalls == 3
MaxRetriesBound == 2
MaxThresholdBound == 2
MaxTimeoutBound == 3
MaxRateClock == 92
MaxRateLimit == 2
maxBytes == 2
MaxAuditCalls == 4
MaxMessages == 3
MaxAgents == 2
MaxSessionCalls == 4
MaxCloses == 3
MaxIssues == 2
MaxInvocations == 2

(* Program constants *)

RETRY_BASE_DELAY == 1

(* A retryable set that takes in 500 as well *)
RETRYABLE_STATUS_CODES_And500 == {500, 502, 503, 504, 429}

RETRYABLE_STATUS_CODES == {502, 503, 504, 429}

Slots == {1, 2}

HttpSlots == {1}

----------------------------------------------------------------------------
(* Outcomes of one HTTP round trip (client.request + raise_for_status +   *)
(* resp.json()), chosen by the backing service and the network.           *)

OkBodies == {"object", "object_no_project_id", "array", "array_malformed", "not_json"}

ErrorStatuses == {400, 404, 409, 422, 500, 503}

Outcomes ==
    [kind : {"response"}, status : {200}, body : OkBodies]
    \cup [kind : {"response"}, status : ErrorStatuses, body : {"text"}]
    \cup [kind : {"ConnectError", "TimeoutException", "TransportError"},
          status : {0}, body : {"text"}]

(* The outcomes the client is driven with on its own: a decodable and an  *)
(* undecodable 200, every retryable status, non-retryable statuses with   *)
(* a short body and with one longer than 500 characters, and the          *)
(* exceptions.                                                            *)
DirectOutcomes ==
    [kind : {"response"}, status : {200}, body : {"object", "not_json"}]
    \cup [kind : {"response"}, status : RETRYABLE_STATUS_CODES, body : {"text"}]
    \cup [kind : {"response"}, status : {404}, body : {"text", "long_text"}]
    \cup [kind : {"response"}, status : {500}, body : {"text"}]
    \cup [kind : {"ConnectError", "TimeoutException", "TransportError"},
          status : {0}, body : {"text"}]

(* The result of a _request call: a decoded body or a raised exception.   *)
(* message is the exception's own text (str(exc)), endpoint and           *)
(* status_code are the TurboAPIError fields.                              *)

NoResult == [kind |-> "none", status_code |-> 0, message |-> "", endpoint |-> "", body |-> ""]

Returned(body) ==
    [kind |-> "ok", status_code |-> 200, message |-> "", endpoint |-> "", body |-> body]

TurboAPIError(message, status, body) ==
    [kind |-> "TurboAPIError", status_code |-> status, message |-> message,
     endpoint |-> "METHOD PATH", body |-> body]

CircuitOpenError ==
    [kind |-> "TurboAPIError", status_code |-> 0,
     message |-> "Circuit breaker open. API calls paused for <remaining>s.",
     endpoint |-> "(circuit breaker)", body |-> ""]

OtherException(what) ==
    [kind |-> "Exception", status_code |-> 0, message |-> what, endpoint |-> "", body |-> ""]

(* exc.response.text[:500] *)
Body500(body) == IF body = "long_text" THEN "long_text[:500]" ELSE body

NoOutcome == [kind |-> "none", status |-> 0, body |-> ""]

(* How the try/except of _request classes the outcome of one round trip *)
Class(o) ==
    CASE o.kind = "response" /\ o.status = 200 -> "ok"
      [] o.kind = "response" /\ o.status \in RETRYABLE_STATUS_CODES -> "retryable_status"
      [] o.kind = "response" -> "status"
      [] o.kind = "ConnectError" -> "connect"
      [] o.kind = "TimeoutException" -> "timeout"
      [] OTHER -> "other"

(* History of a direct call: the classes of the outcomes of its round     *)
(* trips so far, and the latest outcome.                                  *)
NoAttempts == [outs |-> <<>>, last |-> NoOutcome]

IdleCall == [pc |-> "idle", attempt |-> 0, reqs |-> 0, probe |-> FALSE, res |-> NoResult]

----------------------------------------------------------------------------
(* Circuit breaker *)

CircuitOpen == \E t \in circuit_open_until : clock < t

DeadlinePassed == \E t \in circuit_open_until : clock >= t

(* _record_success without its second assignment *)
_record_success_KeepsDeadline ==
    /\ consecutive_failures' = 0
    /\ UNCHANGED circuit_open_until

_record_success ==
    /\ consecutive_failures' = 0
    /\ circuit_open_until' = {}

(* _record_failure that opens one failure late *)
_record_failure_OpensLate ==
    /\ consecutive_failures' = consecutive_failures + 1
    /\ circuit_open_until' =
          IF consecutive_failures + 1 > circuit_threshold
          THEN {clock + circuit_timeout}
          ELSE circuit_open_until

_record_failure ==
    /\ consecutive_failures' = consecutive_failures + 1
    /\ circuit_open_until' =
          IF consecutive_failures + 1 >= circuit_threshold
          THEN {clock + circuit_timeout}
          ELSE circuit_open_until

Delay(attempt) == RETRY_BASE_DELAY * (2 ^ attempt)

(* _request up to its first suspension: _check_circuit, then the loop is  *)
(* entered.  A short-circuited call raises CircuitOpenError at once.      *)
_check_circuit(s) ==
    IF CircuitOpen
    THEN /\ hc' = [hc EXCEPT ![s] = [IdleCall EXCEPT !.pc = "ret", !.res = CircuitOpenError]]
         /\ UNCHANGED <<consecutive_failures, circuit_open_until>>
    ELSE IF DeadlinePassed
    THEN /\ circuit_open_until' = {}
         /\ consecutive_failures' = 0
         /\ hc' = [hc EXCEPT ![s] = [IdleCall EXCEPT !.pc = "try", !.probe = TRUE]]
    ELSE /\ hc' = [hc EXCEPT ![s] = [IdleCall EXCEPT !.pc = "try"]]
         /\ UNCHANGED <<consecutive_failures, circuit_open_until>>

(* A direct call of get / post / patch on the client. *)
_request_begin(s) ==
    /\ hc[s].pc = "idle"
    /\ ncalls < MaxCalls
    /\ ncalls' = ncalls + 1
    /\ attempts' = NoAttempts
    /\ _check_circuit(s)
    /\ UNCHANGED <<clock, max_retries, circuit_threshold, circuit_timeout, transport,
                   rateVars, rate_result, failed_streak, hookVars, inv, agentVars, libVars>>

Finish(s, result) ==
    hc' = [hc EXCEPT ![s].pc = "ret", ![s].res = result, ![s].reqs = @ + 1]

(* A loop that gives up on the first failure *)
Retry_GivesUp(s) ==
    Finish(s, TurboAPIError("Request failed after <attempts> attempts", 0, ""))

Retry(s) ==
    hc' = [hc EXCEPT ![s].pc = "sleep", ![s].reqs = @ + 1]

(* History kept for the direct caller: a call that ended on a             *)
(* non-retryable response extends the run of such calls (counted up to    *)
(* the threshold), a short-circuited call leaves it, any other end        *)
(* breaks it.  at is the time the run reached the threshold.              *)
StreakAfter(call) ==
    IF call.res = CircuitOpenError THEN failed_streak
    ELSE IF Class(attempts.last) # "status" THEN [n |-> 0, at |-> 0]
    ELSE IF failed_streak.n + 1 < circuit_threshold
    THEN [n |-> failed_streak.n + 1, at |-> 0]
    ELSE [n |-> circuit_threshold, at |-> clock]

(* One pass of the loop body: the request is issued and its outcome       *)
(* handled by the try/except of _request.                                 *)
_request_attempt(s, o) ==
    /\ hc[s].pc = "try"
    /\ transport' = "open"
    /\ IF o.kind = "response" /\ o.status = 200
       THEN /\ _record_success
            /\ IF o.body = "not_json"
               THEN Finish(s, OtherException("JSONDecodeError"))
               ELSE Finish(s, Returned(o.body))
       ELSE IF o.kind = "response"
       THEN /\ _record_failure
            /\ IF o.status \in RETRYABLE_STATUS_CODES /\ hc[s].attempt < max_retries
               THEN Retry(s)
               ELSE Finish(s, TurboAPIError("METHOD PATH failed with <status>", o.status,
                                               Body500(o.body)))
       ELSE IF o.kind = "ConnectError"
       THEN /\ _record_failure
            /\ IF hc[s].attempt < max_retries
               THEN Retry(s)
               ELSE Finish(s, TurboAPIError("Cannot connect to Turbo API at <base_url>", 0,
                                               o.body))
       ELSE IF o.kind = "TimeoutException"
       THEN /\ _record_failure
            /\ IF hc[s].attempt < max_retries
               THEN Retry(s)
               ELSE Finish(s, TurboAPIError("Timeout on METHOD PATH after <attempts> attempts",
                                               0, "Request timed out"))
       ELSE /\ Finish(s, OtherException("TransportError"))
            /\ UNCHANGED <<consecutive_failures, circuit_open_until>>
    /\ UNCHANGED <<clock, max_retries, circuit_threshold, circuit_timeout, ncalls,
                   rateVars, rate_result, failed_streak, hookVars, inv, agentVars, libVars>>

(* A round trip of a call made by a gate or a handler. *)
Attempt(s, o) == _request_attempt(s, o) /\ UNCHANGED attempts

(* A round trip of a direct call, recorded in the history. *)
DirectAttempt(s, o) ==
    /\ _request_attempt(s, o)
    /\ attempts' = [outs |-> Append(attempts.outs, Class(o)), last |-> o]

(* _request_backoff with a loop that does not count its passes *)
_request_backoff_SamePass(s) ==
    /\ hc[s].pc = "sleep"
    /\ clock + Delay(hc[s].attempt) <= MaxClock
    /\ clock' = clock + Delay(hc[s].attempt)
    /\ hc' = [hc EXCEPT ![s].pc = "try"]
    /\ UNCHANGED <<clientVars, ncalls, rateVars, rate_result, failed_streak, attempts, hookVars, inv, agentVars, libVars>>

(* asyncio.sleep(delay) elapses and the loop continues. *)
_request_backoff(s) ==
    /\ hc[s].pc = "sleep"
    /\ clock + Delay(hc[s].attempt) <= MaxClock
    /\ clock' = clock + Delay(hc[s].attempt)
    /\ hc' = [hc EXCEPT ![s].pc = "try", ![s].attempt = @ + 1]
    /\ UNCHANGED <<clientVars, ncalls, rateVars, rate_result, failed_streak, attempts, hookVars, inv, agentVars, libVars>>

(* The caller takes the result of a finished call: the return or the     *)
(* raise reaches it without a suspension in between.                      *)
Collect(s) ==
    /\ hc[s].pc = "ret"
    /\ hc' = [hc EXCEPT ![s] = IdleCall]
    /\ failed_streak' = StreakAfter(hc[s])
    /\ attempts' = NoAttempts
    /\ UNCHANGED <<clock, clientVars, ncalls, rateVars, rate_result, hookVars, inv, agentVars, libVars>>

(* Time passes while a coroutine is suspended or no call is in flight. *)
Tick ==
    /\ clock < MaxClock
    /\ \A s \in Slots : hc[s].pc # "ret"
    /\ clock' = clock + 1
    /\ UNCHANGED <<httpVars, ncalls, rateVars, rate_result, failed_streak, attempts, hookVars, inv, agentVars, libVars>>


(* A close that calls aclose() whatever the state of the transport *)
close_AlwaysCloses ==
    /\ closes.n < MaxCloses
    /\ closes' = [n |-> closes.n + 1, op |-> "close", aclosed |-> closes.aclosed + 1]
    /\ transport' = "none"
    /\ UNCHANGED <<clock, max_retries, circuit_threshold, circuit_timeout, consecutive_failures,
                   circuit_open_until, hc, ncalls, rateVars, rate_result, failed_streak, attempts,
                   hookVars, inv, agentVars, _default_client, direct>>

(* TurboHTTPClient.close *)
close ==
    /\ closes.n < MaxCloses
    /\ IF transport = "open"
       THEN /\ closes' = [n |-> closes.n + 1, op |-> "close", aclosed |-> closes.aclosed + 1]
            /\ transport' = "none"
       ELSE /\ closes' = [closes EXCEPT !.n = @ + 1, !.op = "close"]
            /\ UNCHANGED transport
    /\ UNCHANGED <<clock, max_retries, circuit_threshold, circuit_timeout, consecutive_failures,
                   circuit_open_until, hc, ncalls, rateVars, rate_result, failed_streak, attempts,
                   hookVars, inv, agentVars, _default_client, direct>>

(* http.get_http_client creating the singleton: a TurboHTTPClient with   *)
(* the same configuration, no transport and a closed circuit.             *)
get_http_client ==
    /\ ~_default_client
    /\ \A s \in Slots : hc[s].pc = "idle"
    /\ _default_client' = TRUE
    /\ consecutive_failures' = 0
    /\ circuit_open_until' = {}
    /\ transport' = "none"
    /\ UNCHANGED <<clock, max_retries, circuit_threshold, circuit_timeout, hc, ncalls, rateVars,
                   rate_result, failed_streak, attempts, hookVars, inv, agentVars, closes, direct>>

(* http.close_http_client: the client above is the singleton, if any. *)
close_http_client ==
    /\ closes.n < MaxCloses
    /\ IF _default_client
       THEN /\ closes' = [n |-> closes.n + 1, op |-> "close_http_client",
                          aclosed |-> closes.aclosed + IF transport = "open" THEN 1 ELSE 0]
            /\ transport' = "none"
            /\ _default_client' = FALSE
       ELSE /\ closes' = [closes EXCEPT !.n = @ + 1, !.op = "close_http_client"]
            /\ UNCHANGED <<transport, _default_client>>
    /\ UNCHANGED <<clock, max_retries, circuit_threshold, circuit_timeout, consecutive_failures,
                   circuit_open_until, hc, ncalls, rateVars, rate_result, failed_streak, attempts,
                   hookVars, inv, agentVars, direct>>

----------------------------------------------------------------------------
(* Tool catalog names *)

TOOL_NAMES ==
    {"list_projects", "get_project", "get_project_issues", "list_issues",
     "get_issue", "create_issue", "update_issue", "start_issue_work",
     "get_work_queue", "get_next_issue", "log_work", "list_initiatives",
     "list_decisions", "create_decision", "add_comment", "project_status_summary"}

WRITE_TOOLS ==
    {"create_issue", "update_issue", "start_issue_work", "log_work",
     "create_decision", "add_comment"}

(* A read set that is the whole catalog *)
READ_TOOLS_WholeCatalog == TOOL_NAMES

READ_TOOLS == TOOL_NAMES \ WRITE_TOOLS

(* The name under which the runtime presents a tool of the "turbo" server *)
(* to the hooks: mcp__turbo__<name>, kept as the pair (server, name).     *)
Mcp(name) == <<"mcp__turbo__", name>>

Bash == <<"", "Bash">>

HookToolNames == {Mcp(n) : n \in TOOL_NAMES} \cup {Bash}

----------------------------------------------------------------------------
(* Hook outcomes *)

Continue == [decision |-> "continue", reason |-> <<"", "">>]

_deny(reason) == [decision |-> "deny", reason |-> reason]

----------------------------------------------------------------------------
(* Rate limiter: hooks.rate_limit_tool_calls.  The clock is read and the  *)
(* window pruned, checked and extended without a suspension in between.   *)

RateWindow == 60

(* A window that is never pruned *)
Prune_Nothing(timestamps, now) == timestamps

RECURSIVE Prune(_, _)
Prune(timestamps, now) ==
    IF timestamps # <<>> /\ now - Head(timestamps) > RateWindow
    THEN Prune(Tail(timestamps), now)
    ELSE timestamps

(* appendleft in place of append *)
DequeAppend_Left(timestamps, now) == <<now>> \o timestamps

(* deque(maxlen = MAX_CALLS_PER_MINUTE + 10).append *)
DequeAppend(timestamps, now) ==
    IF Len(timestamps) >= MAX_CALLS_PER_MINUTE + 10
    THEN Append(Tail(timestamps), now)
    ELSE Append(timestamps, now)

RateDenies_OffByOne(tool_name) ==
    Len(Prune(_call_timestamps[tool_name], clock)) > MAX_CALLS_PER_MINUTE

RateDenies(tool_name) ==
    Len(Prune(_call_timestamps[tool_name], clock)) >= MAX_CALLS_PER_MINUTE

RateOutcome(tool_name) ==
    IF RateDenies(tool_name)
    THEN _deny(<<"Rate limit exceeded: <tool> called <n> times in the last minute (max <max>). Wait before retrying.", "">>)
    ELSE Continue

(* A limiter that records the denied calls as well *)
rate_limit_tool_calls_RecordsDenied(tool_name) ==
    /\ _call_timestamps' =
          [_call_timestamps EXCEPT ![tool_name] = DequeAppend(Prune(@, clock), clock)]
    /\ admitted' =
          [admitted EXCEPT ![tool_name] =
              IF RateDenies(tool_name) THEN @ ELSE Append(@, clock)]
    /\ UNCHANGED MAX_CALLS_PER_MINUTE

rate_limit_tool_calls(tool_name) ==
    /\ _call_timestamps' =
          [_call_timestamps EXCEPT ![tool_name] =
              IF RateDenies(tool_name)
              THEN Prune(@, clock)
              ELSE DequeAppend(Prune(@, clock), clock)]
    /\ admitted' =
          [admitted EXCEPT ![tool_name] =
              IF RateDenies(tool_name) THEN @ ELSE Append(@, clock)]
    /\ UNCHANGED MAX_CALLS_PER_MINUTE

RateInit ==
    /\ _call_timestamps = [t \in HookToolNames |-> <<>>]
    /\ admitted = [t \in HookToolNames |-> <<>>]
    /\ rate_result = [tool |-> Bash, at |-> 0, outcome |-> Continue]

----------------------------------------------------------------------------
(* Project ids, issue ids and the backing service's issue -> project data *)

ProjectIds == {"A", "B"}

IssueIds == {"I1", "I2"}

IssueOwner(issue_id) == IF issue_id = "I1" THEN "A" ELSE "B"

(* Tool input as the hooks and the handlers read it: the project_id and   *)
(* issue_id keys ("" when absent or empty), whether the remaining fields  *)
(* satisfy the tool's schema, and the shell command of a Bash call.       *)
ToolInputs ==
    [project_id : ProjectIds \cup {""}, issue_id : IssueIds \cup {""},
     fields_ok : BOOLEAN, command : {""}]

----------------------------------------------------------------------------
(* Allow-list: hooks._get_allowed_project_ids over TURBO_ALLOWED_PROJECT_IDS, *)
(* held as the list of its comma-separated pieces (unset reads as "").        *)

Strip(piece) ==
    CASE piece = " " -> ""
      [] piece = " A" -> "A"
      [] OTHER -> piece

(* The allow-list read without raw.strip(): only "" is no restriction *)
_get_allowed_project_ids_NoStrip ==
    IF env_allowed = <<"">>
    THEN [none |-> TRUE, ids |-> {}]
    ELSE [none |-> FALSE,
          ids |-> {Strip(env_allowed[i]) : i \in DOMAIN env_allowed} \ {""}]

_get_allowed_project_ids ==
    IF Len(env_allowed) = 1 /\ Strip(env_allowed[1]) = ""
    THEN [none |-> TRUE, ids |-> {}]
    ELSE [none |-> FALSE,
          ids |-> {Strip(env_allowed[i]) : i \in DOMAIN env_allowed} \ {""}]

----------------------------------------------------------------------------
(* Scope gate: hooks.enforce_project_scope *)

_ISSUE_SCOPED_TOOLS ==
    {Mcp("get_issue"), Mcp("update_issue"), Mcp("start_issue_work"), Mcp("log_work")}

_CROSS_PROJECT_TOOLS ==
    {Mcp("list_projects"), Mcp("list_issues"), Mcp("list_initiatives"),
     Mcp("list_decisions"), Mcp("get_work_queue"), Mcp("get_next_issue")}

NotInScope(pid) ==
    _deny(<<"Project <pid> is not in the allowed scope. Allowed: <allowed>", pid>>)

IssueNotInScope(pid) ==
    _deny(<<"Issue <issue_id> belongs to project <pid>, which is not in scope.", pid>>)

DeniedForSafety(issue_id) ==
    _deny(<<"Cannot verify project scope for issue <issue_id>. Access denied for safety.", issue_id>>)

Resolve == [decision |-> "resolve", reason |-> <<"", "">>]

(* The gate without its direct project_id check *)
ScopeDecision_NoDirectCheck(allowed, tool_name, tool_input) ==
    IF allowed.none THEN Continue
    ELSE IF tool_name \in _CROSS_PROJECT_TOOLS
    THEN IF tool_input.project_id # "" /\ tool_input.project_id \notin allowed.ids
         THEN NotInScope(tool_input.project_id)
         ELSE Continue
    ELSE IF tool_name \in _ISSUE_SCOPED_TOOLS
    THEN IF tool_input.issue_id = ""
         THEN _deny(<<"issue_id is required but missing.", "">>)
         ELSE IF _issue_project_cache[tool_input.issue_id] # ""
         THEN IF _issue_project_cache[tool_input.issue_id] \notin allowed.ids
              THEN IssueNotInScope(_issue_project_cache[tool_input.issue_id])
              ELSE Continue
         ELSE Resolve
    ELSE Continue

(* The gate letting every cross-project read tool through *)
ScopeDecision_CrossUnchecked(allowed, tool_name, tool_input) ==
    IF allowed.none \/ tool_name \in _CROSS_PROJECT_TOOLS THEN Continue
    ELSE IF tool_input.project_id # ""
    THEN IF tool_input.project_id \notin allowed.ids
         THEN NotInScope(tool_input.project_id)
         ELSE Continue
    ELSE IF tool_name \in _ISSUE_SCOPED_TOOLS
    THEN IF tool_input.issue_id = ""
         THEN _deny(<<"issue_id is required but missing.", "">>)
         ELSE IF _issue_project_cache[tool_input.issue_id] # ""
         THEN IF _issue_project_cache[tool_input.issue_id] \notin allowed.ids
              THEN IssueNotInScope(_issue_project_cache[tool_input.issue_id])
              ELSE Continue
         ELSE Resolve
    ELSE Continue

(* The gate up to its first suspension: an outcome, or Resolve when the   *)
(* issue's project has to be fetched (GET /issues/{issue_id}).            *)
ScopeDecision(allowed, tool_name, tool_input) ==
    IF allowed.none THEN Continue
    ELSE IF tool_name \in _CROSS_PROJECT_TOOLS
    THEN IF tool_input.project_id # "" /\ tool_input.project_id \notin allowed.ids
         THEN NotInScope(tool_input.project_id)
         ELSE Continue
    ELSE IF tool_input.project_id # ""
    THEN IF tool_input.project_id \notin allowed.ids
         THEN NotInScope(tool_input.project_id)
         ELSE Continue
    ELSE IF tool_name \in _ISSUE_SCOPED_TOOLS
    THEN IF tool_input.issue_id = ""
         THEN _deny(<<"issue_id is required but missing.", "">>)
         ELSE IF _issue_project_cache[tool_input.issue_id] # ""
         THEN IF _issue_project_cache[tool_input.issue_id] \notin allowed.ids
              THEN IssueNotInScope(_issue_project_cache[tool_input.issue_id])
              ELSE Continue
         ELSE Resolve
    ELSE Continue

(* The project id the gate compared with the allow-list, "" if none. *)
ScopeCompared(allowed, tool_name, tool_input) ==
    IF allowed.none THEN ""
    ELSE IF tool_name \in _CROSS_PROJECT_TOOLS \/ tool_input.project_id # ""
    THEN tool_input.project_id
    ELSE IF tool_name \in _ISSUE_SCOPED_TOOLS /\ tool_input.issue_id # ""
    THEN _issue_project_cache[tool_input.issue_id]
    ELSE ""

(* issue_data.get("project_id", "") on the decoded body of GET /issues/{id} *)
ResolvedPid(res, issue_id) ==
    IF res.body = "object" THEN IssueOwner(issue_id) ELSE ""

(* The gate failing open: a lookup that raised lets the call through *)
ScopeAfterLookup_FailOpen(allowed, res, issue_id) ==
    IF res.kind # "ok" \/ res.body \in {"array", "array_malformed"}
    THEN Continue
    ELSE IF ResolvedPid(res, issue_id) # "" /\ ResolvedPid(res, issue_id) \notin allowed.ids
    THEN IssueNotInScope(ResolvedPid(res, issue_id))
    ELSE Continue

(* The gate after the lookup returned or raised: lines 153-167. *)
ScopeAfterLookup(allowed, res, issue_id) ==
    IF res.kind # "ok" \/ res.body \in {"array", "array_malformed"}
    THEN DeniedForSafety(issue_id)
    ELSE IF ResolvedPid(res, issue_id) # "" /\ ResolvedPid(res, issue_id) \notin allowed.ids
    THEN IssueNotInScope(ResolvedPid(res, issue_id))
    ELSE Continue

(* A cache that forgets the entry when a later lookup fails *)
CacheAfterLookup_DropsOnFailure(res, issue_id) ==
    [_issue_project_cache EXCEPT ![issue_id] =
        IF res.kind = "ok" /\ res.body = "object" THEN IssueOwner(issue_id) ELSE ""]

CacheAfterLookup(res, issue_id) ==
    IF res.kind = "ok" /\ res.body = "object"
    THEN [_issue_project_cache EXCEPT ![issue_id] = IssueOwner(issue_id)]
    ELSE _issue_project_cache

----------------------------------------------------------------------------
(* Destructive-command filter: hooks.block_destructive_commands *)

DESTRUCTIVE_PATTERNS ==
    <<"rm -rf",
      "rm -r /",
      "git push --force",
      "git push -f",
      "git reset --hard",
      "DROP TABLE",
      "DROP DATABASE",
      "DELETE FROM",
      "TRUNCATE TABLE",
      "git branch -D",
      "git branch -d main",
      "git branch -d master",
      "chmod -R 777",
      ":(){ :|:& };:">>

Commands == {"", "ls -la", "RM -RF /tmp/x", "git push origin main"}

BashInputs ==
    [project_id : {""}, issue_id : {""}, fields_ok : {TRUE}, command : Commands]

(* The characters of the string literals above. *)
Chars(str) ==
    CASE
    str = "rm -rf" -> <<"r", "m", " ", "-", "r", "f">>
    [] str = "rm -r /" -> <<"r", "m", " ", "-", "r", " ", "/">>
    [] str = "git push --force" -> <<"g", "i", "t", " ", "p", "u", "s", "h", " ", "-", "-", "f", "o", "r", "c", "e">>
    [] str = "git push -f" -> <<"g", "i", "t", " ", "p", "u", "s", "h", " ", "-", "f">>
    [] str = "git reset --hard" -> <<"g", "i", "t", " ", "r", "e", "s", "e", "t", " ", "-", "-", "h", "a", "r", "d">>
    [] str = "DROP TABLE" -> <<"D", "R", "O", "P", " ", "T", "A", "B", "L", "E">>
    [] str = "DROP DATABASE" -> <<"D", "R", "O", "P", " ", "D", "A", "T", "A", "B", "A", "S", "E">>
    [] str = "DELETE FROM" -> <<"D", "E", "L", "E", "T", "E", " ", "F", "R", "O", "M">>
    [] str = "TRUNCATE TABLE" -> <<"T", "R", "U", "N", "C", "A", "T", "E", " ", "T", "A", "B", "L", "E">>
    [] str = "git branch -D" -> <<"g", "i", "t", " ", "b", "r", "a", "n", "c", "h", " ", "-", "D">>
    [] str = "git branch -d main" -> <<"g", "i", "t", " ", "b", "r", "a", "n", "c", "h", " ", "-", "d", " ", "m", "a", "i", "n">>
    [] str = "git branch -d master" -> <<"g", "i", "t", " ", "b", "r", "a", "n", "c", "h", " ", "-", "d", " ", "m", "a", "s", "t", "e", "r">>
    [] str = "chmod -R 777" -> <<"c", "h", "m", "o", "d", " ", "-", "R", " ", "7", "7", "7">>
    [] str = ":(){ :|:& };:" -> <<":", "(", ")", "{", " ", ":", "|", ":", "&", " ", "}", ";", ":">>
    [] str = "safety" -> <<"s", "a", "f", "e", "t", "y">>
    [] str = "Cannot verify project scope for issue <issue_id>. Access denied for safety." ->
          <<"C", "a", "n", "n", "o", "t", " ", "v", "e", "r", "i", "f", "y", " ",
            "p", "r", "o", "j", "e", "c", "t", " ", "s", "c", "o", "p", "e", " ",
            "f", "o", "r", " ", "i", "s", "s", "u", "e", " ", "<", "i", "s", "s", "u", "e",
            "_", "i", "d", ">", ".", " ", "A", "c", "c", "e", "s", "s", " ",
            "d", "e", "n", "i", "e", "d", " ", "f", "o", "r", " ",
            "s", "a", "f", "e", "t", "y", ".">>
    [] str = "Issue <issue_id> belongs to project <pid>, which is not in scope." ->
          <<"I", "s", "s", "u", "e", " ", "<", "i", "s", "s", "u", "e", "_", "i", "d", ">", " ",
            "b", "e", "l", "o", "n", "g", "s", " ", "t", "o", " ",
            "p", "r", "o", "j", "e", "c", "t", " ", "<", "p", "i", "d", ">", ",", " ",
            "w", "h", "i", "c", "h", " ", "i", "s", " ", "n", "o", "t", " ",
            "i", "n", " ", "s", "c", "o", "p", "e", ".">>
    [] str = "" -> <<>>
    [] str = "ls -la" -> <<"l", "s", " ", "-", "l", "a">>
    [] str = "RM -RF /tmp/x" -> <<"R", "M", " ", "-", "R", "F", " ", "/", "t", "m", "p", "/", "x">>
    [] str = "git push origin main" -> <<"g", "i", "t", " ", "p", "u", "s", "h", " ", "o", "r", "i", "g", "i", "n", " ", "m", "a", "i", "n">>
    [] str = "git push --force; rm -rf x" -> <<"g", "i", "t", " ", "p", "u", "s", "h", " ", "-", "-", "f", "o", "r", "c", "e", ";", " ", "r", "m", " ", "-", "r", "f", " ", "x">>
    [] str = "Drop Table users" -> <<"D", "r", "o", "p", " ", "T", "a", "b", "l", "e", " ", "u", "s", "e", "r", "s">>
    [] str = "rm -r ./build" -> <<"r", "m", " ", "-", "r", " ", ".", "/", "b", "u", "i", "l", "d">>

UpperCase == <<"A", "B", "C", "D", "E", "F", "G", "H", "I", "J", "K", "L", "M",
               "N", "O", "P", "Q", "R", "S", "T", "U", "V", "W", "X", "Y", "Z">>

LowerCase == <<"a", "b", "c", "d", "e", "f", "g", "h", "i", "j", "k", "l", "m",
               "n", "o", "p", "q", "r", "s", "t", "u", "v", "w", "x", "y", "z">>

(* str.lower() *)
Lower(chars) ==
    [i \in DOMAIN chars |->
        IF \E k \in DOMAIN UpperCase : UpperCase[k] = chars[i]
        THEN LowerCase[CHOOSE k \in DOMAIN UpperCase : UpperCase[k] = chars[i]]
        ELSE chars[i]]

(* needle in haystack *)
Contains(haystack, needle) ==
    \E k \in 0..(Len(haystack) - Len(needle)) :
        \A i \in DOMAIN needle : haystack[k + i] = needle[i]

PatternMatches(pattern, command) ==
    Contains(Lower(Chars(command)), Lower(Chars(pattern)))

(* The reason names the last matching pattern instead of the first. *)
block_destructive_commands_LastMatch(tool_input) ==
    IF \E k \in DOMAIN DESTRUCTIVE_PATTERNS :
          PatternMatches(DESTRUCTIVE_PATTERNS[k], tool_input.command)
    THEN LET last == CHOOSE k \in DOMAIN DESTRUCTIVE_PATTERNS :
                /\ PatternMatches(DESTRUCTIVE_PATTERNS[k], tool_input.command)
                /\ \A j \in (k + 1)..Len(DESTRUCTIVE_PATTERNS) :
                      ~PatternMatches(DESTRUCTIVE_PATTERNS[j], tool_input.command)
         IN _deny(<<"Destructive command blocked: contains '<pattern>'. Turbo agents cannot execute destructive shell commands.",
                    DESTRUCTIVE_PATTERNS[last]>>)
    ELSE Continue

block_destructive_commands(tool_input) ==
    IF \E k \in DOMAIN DESTRUCTIVE_PATTERNS :
          PatternMatches(DESTRUCTIVE_PATTERNS[k], tool_input.command)
    THEN LET first == CHOOSE k \in DOMAIN DESTRUCTIVE_PATTERNS :
                /\ PatternMatches(DESTRUCTIVE_PATTERNS[k], tool_input.command)
                /\ \A j \in 1..(k - 1) :
                      ~PatternMatches(DESTRUCTIVE_PATTERNS[j], tool_input.command)
         IN _deny(<<"Destructive command blocked: contains '<pattern>'. Turbo agents cannot execute destructive shell commands.",
                    DESTRUCTIVE_PATTERNS[first]>>)
    ELSE Continue

----------------------------------------------------------------------------
(* Audit log: hooks.audit_log_tool_call / audit_log_tool_result *)

(* RotatingFileHandler(AUDIT_LOG_PATH, maxBytes, backupCount).  Sizes are  *)
(* counted in entries: a line is one unit and maxBytes (10 MiB in the     *)
(* source) is a few units.                                                *)

backupCount == 5
SummaryLimit == 200

(* The line would bring the live file to maxBytes. *)
shouldRollover(files) == Len(files[1]) + 1 >= maxBytes

(* The live file becomes backup .1, every backup moves up one place, the  *)
(* one beyond backupCount is deleted, and a new live file is opened.      *)
doRollover(files) ==
    <<<<>>>> \o SubSeq(files, 1, IF Len(files) < backupCount THEN Len(files) ELSE backupCount)

emit(files, line) ==
    LET f == IF shouldRollover(files) THEN doRollover(files) ELSE files
    IN [f EXCEPT ![1] = Append(@, line)]

(* A writer that truncates the live file before each line *)
AuditWrite_Overwrites(entry) ==
    /\ audit_log' = Append(audit_log, entry)
    /\ audit_files' = [audit_files EXCEPT ![1] = <<entry>>]

(* async with _audit_lock: _get_audit_logger().info(json.dumps(entry)).   *)
(* The lock is free whenever a hook reaches it, as nothing suspends       *)
(* while it is held: the line is written in the step that builds it.      *)
AuditWrite(entry) ==
    /\ audit_log' = Append(audit_log, entry)
    /\ audit_files' = emit(audit_files, entry)

audit_log_tool_call(tool_name, tool_use_id) ==
    AuditWrite([event |-> "tool_call", tool |-> tool_name, tool_use_id |-> tool_use_id])

audit_log_tool_result(tool_name, tool_use_id, is_error) ==
    AuditWrite([event |-> "tool_result", tool |-> tool_name, tool_use_id |-> tool_use_id,
                is_error |-> is_error])

----------------------------------------------------------------------------
(* Tool handlers: turbo/agent/tools.py *)

NeedsProjectId == {"get_project", "get_project_issues", "create_issue", "project_status_summary"}

NeedsIssueId == {"get_issue", "update_issue", "start_issue_work", "log_work"}

HasFallbackHint ==
    {"list_projects", "get_project", "get_project_issues", "get_issue",
     "create_issue", "update_issue", "start_issue_work", "log_work"}

\* model_cls applied to args succeeds: keys the model does not declare are ignored
_validate(name, args) ==
    /\ args.fields_ok
    /\ name \in NeedsProjectId => args.project_id # ""
    /\ name \in NeedsIssueId => args.issue_id # ""

NoToolResult == [raised |-> FALSE, isError |-> FALSE, text |-> <<"", "">>]

_text(content) == [raised |-> FALSE, isError |-> FALSE, text |-> <<"<json>", content>>]

_error(message) == [raised |-> FALSE, isError |-> TRUE, text |-> message]

Raised(exc) == [raised |-> TRUE, isError |-> TRUE, text |-> <<"<raised>", exc.message>>]

InvalidInput ==
    _error(<<"Invalid input: <details>. Check the tool's parameter descriptions and try again.", "">>)

(* TurboAPIError.agent_message *)
agent_message(exc) ==
    IF exc.status_code = 404
    THEN <<"Error: <endpoint> not found (404). Try: Use a list tool to find valid IDs.", exc.endpoint>>
    ELSE IF exc.status_code = 422
    THEN <<"Error: Invalid input for <endpoint> (422). Details: <body>. Try: Check required fields and value formats.", exc.endpoint>>
    ELSE IF exc.status_code = 409
    THEN <<"Error: Conflict on <endpoint> (409). Details: <body>. Try: Check current state before retrying.", exc.endpoint>>
    ELSE IF exc.status_code >= 500
    THEN <<"Error: Turbo API server error on <endpoint> (<status_code>). Try: Wait a moment and retry.", exc.endpoint>>
    ELSE <<"Error: <endpoint> returned <status_code>. Details: <body>", exc.endpoint>>

_safe_call(name, res) ==
    IF res.kind = "ok" THEN _text(res.body)
    ELSE IF res.kind = "TurboAPIError" THEN _error(agent_message(res))
    ELSE IF name \in HasFallbackHint
    THEN _error(<<"Error: Unexpected failure. <fallback_hint>", "">>)
    ELSE _error(<<"Error: <exc>", res.message>>)

(* project_status_summary after its first GET (the project) *)
SummaryAfterProject(res) ==
    IF res.kind = "TurboAPIError" THEN _error(agent_message(res))
    ELSE Raised(res)

(* project_status_summary after its second GET (the issues): the loop     *)
(* over the issues and project.get("name")                                *)
SummaryAfterIssues(project_body, res) ==
    IF res.kind = "TurboAPIError" THEN _error(agent_message(res))
    ELSE IF res.kind = "Exception" THEN Raised(res)
    ELSE IF res.body = "array_malformed" \/ project_body \in {"array", "array_malformed"}
    THEN Raised(OtherException("AttributeError"))
    ELSE _text("summary")

----------------------------------------------------------------------------
(* One tool invocation through the pipeline.  The chain is the one        *)
(* turbo_hooks() registers; the runtime evaluates the matching gates in   *)
(* order, stops at the first deny, otherwise runs the handler and then    *)
(* the PostToolUse hook.                                                  *)

PreToolUse_RateFirst ==
    <<[matcher |-> ".*", hook |-> "rate_limit_tool_calls"],
      [matcher |-> ".*", hook |-> "audit_log_tool_call"],
      [matcher |-> "mcp__turbo__.*", hook |-> "enforce_project_scope"],
      [matcher |-> "Bash", hook |-> "block_destructive_commands"]>>

PreToolUse ==
    <<[matcher |-> ".*", hook |-> "audit_log_tool_call"],
      [matcher |-> ".*", hook |-> "rate_limit_tool_calls"],
      [matcher |-> "mcp__turbo__.*", hook |-> "enforce_project_scope"],
      [matcher |-> "Bash", hook |-> "block_destructive_commands"]>>

Matches(matcher, tool_name) ==
    CASE matcher = ".*" -> TRUE
      [] matcher = "mcp__turbo__.*" -> tool_name[1] = "mcp__turbo__"
      [] matcher = "Bash" -> tool_name = Bash

(* Index of the first gate at or after position i that matches, 0 if none *)
NextGate(tool_name, i) ==
    IF \E j \in i..Len(PreToolUse) : Matches(PreToolUse[j].matcher, tool_name)
    THEN CHOOSE j \in i..Len(PreToolUse) :
            /\ Matches(PreToolUse[j].matcher, tool_name)
            /\ \A k \in i..(j - 1) : ~Matches(PreToolUse[k].matcher, tool_name)
    ELSE 0

IdleInv ==
    [pc |-> "idle", id |-> 0, tool |-> Bash,
     input |-> [project_id |-> "", issue_id |-> "", fields_ok |-> TRUE, command |-> ""],
     gate |-> 0, ran |-> <<>>, allowed |-> [none |-> TRUE, ids |-> {}],
     scope_checked |-> "", denied |-> FALSE, gate_reqs |-> 0, handler_reqs |-> 0,
     project_body |-> "", exc |-> NoResult, result |-> NoToolResult]

Hook(s) == IF inv[s].gate = 0 THEN "" ELSE PreToolUse[inv[s].gate].hook

Ran(r, hook) == [r EXCEPT !.ran = Append(@, hook)]

(* What the runtime does with a gate's outcome *)
Advance(r, outcome) ==
    IF outcome.decision = "deny"
    THEN [r EXCEPT !.pc = "done", !.denied = TRUE, !.result = _error(outcome.reason)]
    ELSE IF NextGate(r.tool, r.gate + 1) = 0
    THEN [r EXCEPT !.pc = "handler", !.gate = 0]
    ELSE [r EXCEPT !.gate = NextGate(r.tool, r.gate + 1)]

Invoke(s, tool_name, tool_input) ==
    /\ inv[s].pc = "idle"
    /\ ncalls < MaxInvocations
    /\ ncalls' = ncalls + 1
    /\ inv' = [inv EXCEPT ![s] =
          [IdleInv EXCEPT !.pc = "pre", !.id = ncalls + 1, !.tool = tool_name,
                          !.input = tool_input, !.gate = NextGate(tool_name, 1)]]
    /\ UNCHANGED <<clock, httpVars, rateVars, rate_result, failed_streak, attempts, hookVars, agentVars, libVars>>

AuditPre(s) ==
    /\ inv[s].pc = "pre" /\ Hook(s) = "audit_log_tool_call"
    /\ audit_log_tool_call(inv[s].tool, inv[s].id)
    /\ inv' = [inv EXCEPT ![s] = Advance(Ran(@, Hook(s)), Continue)]
    /\ UNCHANGED <<clock, httpVars, ncalls, rateVars, rate_result, failed_streak, attempts,
                   env_allowed, _issue_project_cache, agentVars, libVars>>

RatePre(s) ==
    /\ inv[s].pc = "pre" /\ Hook(s) = "rate_limit_tool_calls"
    /\ rate_limit_tool_calls(inv[s].tool)
    /\ inv' = [inv EXCEPT ![s] = Advance(Ran(@, Hook(s)), RateOutcome(inv[s].tool))]
    /\ UNCHANGED <<clock, httpVars, ncalls, rate_result, failed_streak, attempts, hookVars, agentVars, libVars>>

ScopePre(s) ==
    /\ inv[s].pc = "pre" /\ Hook(s) = "enforce_project_scope"
    /\ LET allowed == _get_allowed_project_ids
           outcome == ScopeDecision(allowed, inv[s].tool, inv[s].input)
           r == [Ran(inv[s], Hook(s)) EXCEPT
                    !.allowed = allowed,
                    !.scope_checked = ScopeCompared(allowed, inv[s].tool, inv[s].input)]
       IN IF outcome.decision = "resolve"
          THEN /\ _check_circuit(s)
               /\ inv' = [inv EXCEPT ![s] = [r EXCEPT !.pc = "scope_http"]]
          ELSE /\ inv' = [inv EXCEPT ![s] = Advance(r, outcome)]
               /\ UNCHANGED <<consecutive_failures, circuit_open_until, hc>>
    /\ UNCHANGED <<clock, max_retries, circuit_threshold, circuit_timeout, transport,
                   ncalls, rateVars, rate_result, failed_streak, attempts, hookVars, agentVars, libVars>>

ScopeResume(s) ==
    /\ inv[s].pc = "scope_http" /\ hc[s].pc = "ret"
    /\ LET res == hc[s].res
           issue_id == inv[s].input.issue_id
           r == [inv[s] EXCEPT !.pc = "pre", !.gate_reqs = hc[s].reqs,
                               !.scope_checked = ResolvedPid(res, issue_id)]
       IN /\ _issue_project_cache' = CacheAfterLookup(res, issue_id)
          /\ inv' = [inv EXCEPT ![s] = Advance(r, ScopeAfterLookup(r.allowed, res, issue_id))]
    /\ hc' = [hc EXCEPT ![s] = IdleCall]
    /\ UNCHANGED <<clock, clientVars, ncalls, rateVars, rate_result, failed_streak, attempts, env_allowed, audit_log,
                   audit_files, agentVars, libVars>>

DestructivePre(s) ==
    /\ inv[s].pc = "pre" /\ Hook(s) = "block_destructive_commands"
    /\ inv' = [inv EXCEPT ![s] =
          Advance(Ran(@, Hook(s)), block_destructive_commands(inv[s].input))]
    /\ UNCHANGED <<clock, httpVars, ncalls, rateVars, rate_result, failed_streak, attempts, hookVars, agentVars, libVars>>

(* The handler up to its first suspension: _validate, then the first      *)
(* request is begun.  The shell tool is the runtime's own.                *)
Handler(s) ==
    /\ inv[s].pc = "handler"
    /\ IF inv[s].tool = Bash
       THEN /\ inv' = [inv EXCEPT ![s].pc = "post", ![s].result = _text("shell output")]
            /\ UNCHANGED <<consecutive_failures, circuit_open_until, hc>>
       ELSE IF ~_validate(inv[s].tool[2], inv[s].input)
       THEN /\ inv' = [inv EXCEPT ![s].pc = "post", ![s].result = InvalidInput]
            /\ UNCHANGED <<consecutive_failures, circuit_open_until, hc>>
       ELSE /\ _check_circuit(s)
            /\ inv' = [inv EXCEPT ![s].pc = "handler_http"]
    /\ UNCHANGED <<clock, max_retries, circuit_threshold, circuit_timeout, transport,
                   ncalls, rateVars, rate_result, failed_streak, attempts, hookVars, agentVars, libVars>>

(* The handler's request returned or raised. *)
HandlerResume(s) ==
    /\ inv[s].pc = "handler_http" /\ hc[s].pc = "ret"
    /\ LET res == hc[s].res
           r == [inv[s] EXCEPT !.handler_reqs = @ + hc[s].reqs, !.exc = res]
       IN IF inv[s].tool[2] = "project_status_summary"
          THEN IF res.kind = "ok"
               THEN /\ _check_circuit(s)
                    /\ inv' = [inv EXCEPT ![s] =
                          [r EXCEPT !.pc = "handler_http2", !.project_body = res.body]]
               ELSE /\ inv' = [inv EXCEPT ![s] =
                          [r EXCEPT !.pc = "post", !.result = SummaryAfterProject(res)]]
                    /\ hc' = [hc EXCEPT ![s] = IdleCall]
                    /\ UNCHANGED <<consecutive_failures, circuit_open_until>>
          ELSE /\ inv' = [inv EXCEPT ![s] =
                     [r EXCEPT !.pc = "post", !.result = _safe_call(inv[s].tool[2], res)]]
               /\ hc' = [hc EXCEPT ![s] = IdleCall]
               /\ UNCHANGED <<consecutive_failures, circuit_open_until>>
    /\ UNCHANGED <<clock, max_retries, circuit_threshold, circuit_timeout, transport,
                   ncalls, rateVars, rate_result, failed_streak, attempts, hookVars, agentVars, libVars>>

(* project_status_summary: the second request returned or raised. *)
SummaryResume(s) ==
    /\ inv[s].pc = "handler_http2" /\ hc[s].pc = "ret"
    /\ inv' = [inv EXCEPT ![s].pc = "post",
                          ![s].handler_reqs = @ + hc[s].reqs,
                          ![s].exc = hc[s].res,
                          ![s].result = SummaryAfterIssues(inv[s].project_body, hc[s].res)]
    /\ hc' = [hc EXCEPT ![s] = IdleCall]
    /\ UNCHANGED <<clock, clientVars, ncalls, rateVars, rate_result, failed_streak, attempts, hookVars, agentVars, libVars>>

(* PostToolUse: the result is audited and handed to the agent; the slot  *)
(* is free again.                                                         *)
Post(s) ==
    /\ inv[s].pc = "post"
    /\ audit_log_tool_result(inv[s].tool, inv[s].id, inv[s].result.isError)
    /\ inv' = [inv EXCEPT ![s] = IdleInv]
    /\ UNCHANGED <<clock, httpVars, ncalls, rateVars, rate_result, failed_streak, attempts,
                   env_allowed, _issue_project_cache, agentVars, libVars>>

(* The deny reason has been handed to the agent as the call's error      *)
(* result; the slot is free again.                                        *)
Done(s) ==
    /\ inv[s].pc = "done"
    /\ inv' = [inv EXCEPT ![s] = IdleInv]
    /\ UNCHANGED <<clock, httpVars, ncalls, rateVars, rate_result, failed_streak, attempts, hookVars, agentVars, libVars>>

HookInit ==
    /\ _issue_project_cache = [i \in IssueIds |-> ""]
    /\ audit_log = <<>>
    /\ audit_files = <<<<>>>>
    /\ inv = [s \in Slots |-> IdleInv]

----------------------------------------------------------------------------
(* The agent: client.TurboAgent and client._TurboSession.  The LLM        *)
(* runtime is seen through what it is given and what it yields.           *)

None == "<None>"

TextBlock(text) == [kind |-> "text", text |-> text]

(* A tool-call block: it has a name and an input, and no text. *)
ToolUseBlock == [kind |-> "tool_use", text |-> None]

AssistantMessage(content) == [type |-> "assistant", content |-> content, result |-> None]

ResultMessage(result) == [type |-> "result", content |-> <<>>, result |-> result]

SystemMessage == [type |-> "system", content |-> <<>>, result |-> None]

(* for block in message.content: if hasattr(block, "text"): result_text = block.text *)
RECURSIVE LastText(_, _)
LastText(content, result_text) ==
    IF content = <<>>
    THEN result_text
    ELSE LastText(Tail(content),
                  IF Head(content).kind = "text" THEN Head(content).text ELSE result_text)

(* The loop of TurboAgent.run over the messages that query() yields:     *)
(* result_text = getattr(message, "result", "") or "".                   *)
RECURSIVE run(_, _)
run(messages, result_text) ==
    IF messages = <<>>
    THEN result_text
    ELSE LET message == Head(messages)
         IN run(Tail(messages),
                IF message.type = "result"
                THEN IF message.result = None THEN "" ELSE message.result
                ELSE IF message.type = "assistant"
                THEN LastText(message.content, result_text)
                ELSE result_text)

(* A send that answers with the text of the result message alone *)
RECURSIVE send_ResultOnly(_, _)
send_ResultOnly(messages, result_text) ==
    IF messages = <<>>
    THEN result_text
    ELSE LET msg == Head(messages)
         IN send_ResultOnly(Tail(messages),
                IF msg.type = "result" /\ msg.result # None THEN msg.result ELSE "")

(* The loop of _TurboSession.send over receive_response():               *)
(* result_text = getattr(msg, "result", result_text) or result_text.     *)
RECURSIVE send(_, _)
send(messages, result_text) ==
    IF messages = <<>>
    THEN result_text
    ELSE LET msg == Head(messages)
         IN send(Tail(messages),
                 IF msg.type = "assistant"
                 THEN LastText(msg.content, result_text)
                 ELSE IF msg.type = "result"
                 THEN IF msg.result \in {None, ""} THEN result_text ELSE msg.result
                 ELSE result_text)

(* What the runtime yields for one prompt: assistant messages with text  *)
(* and tool-call blocks, system messages, and one result message last,   *)
(* whose text is None, empty or present.                                 *)
Contents ==
    {<<>>, <<TextBlock("a")>>, <<ToolUseBlock>>, <<TextBlock("a"), TextBlock("b")>>,
     <<TextBlock("b"), ToolUseBlock>>}

MessageSequences ==
    LET before == {AssistantMessage(c) : c \in Contents} \cup {SystemMessage}
        prefixes == UNION {[1..n -> before] : n \in 0..(MaxMessages - 1)}
    IN {Append(m, ResultMessage(r)) : m \in prefixes, r \in {None, "", "done"}}

(* Subagents of which the worker may also use the shell *)
TURBO_SUBAGENTS_WorkerShell ==
    {[name |-> "triager", tools |-> <<"mcp__turbo__list_projects", "mcp__turbo__get_issue">>],
     [name |-> "planner", tools |-> <<"mcp__turbo__create_issue">>],
     [name |-> "reporter", tools |-> <<"mcp__turbo__add_comment">>],
     [name |-> "worker", tools |-> <<"mcp__turbo__get_work_queue", "Bash">>]}

(* Subagents of which the triager may also create issues *)
TURBO_SUBAGENTS_TriagerCreates ==
    {[name |-> "triager", tools |-> <<"mcp__turbo__get_issue", "mcp__turbo__create_issue">>],
     [name |-> "planner", tools |-> <<"mcp__turbo__create_issue", "mcp__turbo__create_decision">>],
     [name |-> "reporter", tools |-> <<"mcp__turbo__add_comment">>],
     [name |-> "worker", tools |-> <<"mcp__turbo__update_issue", "mcp__turbo__start_issue_work",
                                     "mcp__turbo__log_work">>]}

(* subagents.TURBO_SUBAGENTS: each subagent with its tool list. *)
TURBO_SUBAGENTS ==
    {[name |-> "triager",
      tools |-> <<"mcp__turbo__list_projects", "mcp__turbo__get_project",
                  "mcp__turbo__get_project_issues", "mcp__turbo__list_issues",
                  "mcp__turbo__get_issue", "mcp__turbo__project_status_summary">>],
     [name |-> "planner",
      tools |-> <<"mcp__turbo__list_projects", "mcp__turbo__get_project",
                  "mcp__turbo__get_project_issues", "mcp__turbo__list_issues",
                  "mcp__turbo__get_issue", "mcp__turbo__create_issue",
                  "mcp__turbo__create_decision", "mcp__turbo__list_initiatives">>],
     [name |-> "reporter",
      tools |-> <<"mcp__turbo__list_projects", "mcp__turbo__get_project",
                  "mcp__turbo__get_project_issues", "mcp__turbo__project_status_summary",
                  "mcp__turbo__list_issues", "mcp__turbo__get_issue",
                  "mcp__turbo__add_comment">>],
     [name |-> "worker",
      tools |-> <<"mcp__turbo__get_work_queue", "mcp__turbo__get_next_issue",
                  "mcp__turbo__get_issue", "mcp__turbo__start_issue_work",
                  "mcp__turbo__update_issue", "mcp__turbo__log_work">>]}

(* No agent constructed yet.  max_budget_usd is in whole dollars. *)
NoAgent ==
    [n |-> 0, exists |-> FALSE, project_id |-> "", max_turns |-> 0, max_budget_usd |-> 0,
     asked |-> <<"", 0, 0>>, error |-> ""]

NoOptions == [max_turns |-> 0, max_budget_usd |-> 0, permission_mode |-> "", agents |-> {}]

NoReturn == [by |-> "", messages |-> <<>>, text |-> ""]

NoCloses == [n |-> 0, op |-> "", aclosed |-> 0]

NoDirect == [fn |-> "", input |-> <<>>, output |-> <<>>]

LibInit ==
    /\ _default_client = FALSE
    /\ closes = NoCloses
    /\ direct = NoDirect

AgentInit ==
    /\ agent = NoAgent
    /\ session = [_client |-> FALSE, calls |-> 0, op |-> "", error |-> ""]
    /\ llm = [options |-> NoOptions, opens |-> 0, closes |-> 0, queries |-> 0]
    /\ returned = NoReturn

notAgentVars ==
    <<clock, httpVars, ncalls, failed_streak, attempts, rateVars, rate_result,
      _issue_project_cache, audit_log, audit_files, inv, libVars>>

(* An agent whose scope is set before its bounds are validated *)
TurboAgent_ScopeFirst(project_id, max_turns, max_budget_usd) ==
    /\ agent.n < MaxAgents
    /\ env_allowed' = IF project_id # "" THEN <<project_id>> ELSE env_allowed
    /\ agent' = IF max_turns < 1 \/ max_budget_usd <= 0
                THEN [agent EXCEPT !.n = @ + 1, !.error = "ValueError",
                                   !.asked = <<project_id, max_turns, max_budget_usd>>]
                ELSE [n |-> agent.n + 1, exists |-> TRUE, project_id |-> project_id,
                      max_turns |-> max_turns, max_budget_usd |-> max_budget_usd,
                      asked |-> <<project_id, max_turns, max_budget_usd>>, error |-> ""]
    /\ UNCHANGED <<notAgentVars, session, llm, returned>>

(* An agent whose scope is added to the allow-list already set *)
TurboAgent_AppendsScope(project_id, max_turns, max_budget_usd) ==
    /\ agent.n < MaxAgents
    /\ IF max_turns < 1 \/ max_budget_usd <= 0
       THEN /\ agent' = [agent EXCEPT !.n = @ + 1, !.error = "ValueError",
                                      !.asked = <<project_id, max_turns, max_budget_usd>>]
            /\ UNCHANGED env_allowed
       ELSE /\ agent' = [n |-> agent.n + 1, exists |-> TRUE, project_id |-> project_id,
                         max_turns |-> max_turns, max_budget_usd |-> max_budget_usd,
                         asked |-> <<project_id, max_turns, max_budget_usd>>, error |-> ""]
            /\ env_allowed' = IF project_id # "" THEN env_allowed \o <<project_id>>
                              ELSE env_allowed
    /\ UNCHANGED <<notAgentVars, session, llm, returned>>

(* TurboAgent.__init__; project_id "" stands for None and for "". *)
TurboAgent(project_id, max_turns, max_budget_usd) ==
    /\ agent.n < MaxAgents
    /\ IF max_turns < 1 \/ max_budget_usd <= 0
       THEN /\ agent' = [agent EXCEPT !.n = @ + 1, !.error = "ValueError",
                                      !.asked = <<project_id, max_turns, max_budget_usd>>]
            /\ UNCHANGED env_allowed
       ELSE /\ agent' = [n |-> agent.n + 1, exists |-> TRUE, project_id |-> project_id,
                         max_turns |-> max_turns, max_budget_usd |-> max_budget_usd,
                         asked |-> <<project_id, max_turns, max_budget_usd>>, error |-> ""]
            /\ env_allowed' = IF project_id # "" THEN <<project_id>> ELSE env_allowed
    /\ UNCHANGED <<notAgentVars, session, llm, returned>>

_build_options(self) ==
    [max_turns |-> self.max_turns, max_budget_usd |-> self.max_budget_usd,
     permission_mode |-> "acceptEdits", agents |-> TURBO_SUBAGENTS]

(* async with agent.session(): the session of the agent is entered.      *)
__aenter__ ==
    /\ agent.exists /\ ~session._client
    /\ session.calls < MaxSessionCalls
    /\ session' = [_client |-> TRUE, calls |-> session.calls + 1, op |-> "__aenter__",
                   error |-> ""]
    /\ llm' = [llm EXCEPT !.options = _build_options(agent), !.opens = @ + 1]
    /\ UNCHANGED <<notAgentVars, env_allowed, agent, returned>>

(* An exit that closes the client and keeps holding it *)
__aexit___KeepsClient ==
    /\ agent.exists
    /\ session.calls < MaxSessionCalls
    /\ session' = [session EXCEPT !.calls = @ + 1, !.op = "__aexit__", !.error = ""]
    /\ llm' = IF session._client THEN [llm EXCEPT !.closes = @ + 1] ELSE llm
    /\ UNCHANGED <<notAgentVars, env_allowed, agent, returned>>

__aexit__ ==
    /\ agent.exists
    /\ session.calls < MaxSessionCalls
    /\ session' = [_client |-> FALSE, calls |-> session.calls + 1, op |-> "__aexit__",
                   error |-> ""]
    /\ llm' = IF session._client THEN [llm EXCEPT !.closes = @ + 1] ELSE llm
    /\ UNCHANGED <<notAgentVars, env_allowed, agent, returned>>

(* await session.send(message), the runtime answering with messages.     *)
CallSend(messages) ==
    /\ agent.exists
    /\ session.calls < MaxSessionCalls
    /\ IF ~session._client
       THEN /\ session' = [session EXCEPT !.calls = @ + 1, !.op = "send",
                                          !.error = "RuntimeError"]
            /\ UNCHANGED <<llm, returned>>
       ELSE /\ session' = [session EXCEPT !.calls = @ + 1, !.op = "send", !.error = ""]
            /\ llm' = [llm EXCEPT !.queries = @ + 1]
            /\ returned' = [by |-> "send", messages |-> messages,
                            text |-> send(messages, "")]
    /\ UNCHANGED <<notAgentVars, env_allowed, agent>>

(* await agent.run(prompt), the runtime answering with messages.         *)
CallRun(messages) ==
    /\ agent.exists
    /\ llm' = [llm EXCEPT !.options = _build_options(agent)]
    /\ returned' = [by |-> "run", messages |-> messages, text |-> run(messages, "")]
    /\ UNCHANGED <<notAgentVars, env_allowed, agent, session>>


----------------------------------------------------------------------------
(* The HTTP client on its own: one logical call at a time on a client     *)
(* constructed with any small configuration.                              *)

ClientInit ==
    /\ max_retries \in 0..MaxRetriesBound
    /\ circuit_threshold \in 1..MaxThresholdBound
    /\ circuit_timeout \in 1..MaxTimeoutBound
    /\ consecutive_failures = 0
    /\ circuit_open_until = {}
    /\ transport = "none"
    /\ hc = [s \in Slots |-> IdleCall]
    /\ failed_streak = [n |-> 0, at |-> 0]
    /\ attempts = NoAttempts

InitHttp ==
    /\ clock = 0
    /\ ncalls = 0
    /\ ClientInit
    /\ RateInit
    /\ MAX_CALLS_PER_MINUTE = MaxRateLimit
    /\ HookInit
    /\ AgentInit
    /\ LibInit
    /\ env_allowed = <<"">>

NextHttp ==
    \/ \E s \in HttpSlots : _request_begin(s)
    \/ \E s \in HttpSlots, o \in DirectOutcomes : DirectAttempt(s, o)
    \/ \E s \in HttpSlots : _request_backoff(s)
    \/ \E s \in HttpSlots : Collect(s)
    \/ Tick

SpecHttp == InitHttp /\ [][NextHttp]_vars

----------------------------------------------------------------------------
(* The client used and closed: requests, close() and the singleton's     *)
(* get_http_client() and close_http_client() in any order.               *)

InitClose ==
    /\ clock = 0
    /\ ncalls = 0
    /\ ClientInit
    /\ max_retries = 0 /\ circuit_timeout = 1
    /\ RateInit
    /\ MAX_CALLS_PER_MINUTE = MaxRateLimit
    /\ HookInit
    /\ AgentInit
    /\ LibInit
    /\ env_allowed = <<"">>

NextClose ==
    \/ \E s \in HttpSlots : _request_begin(s)
    \/ \E s \in HttpSlots, o \in {x \in DirectOutcomes : x.status \in {200, 404}} :
          DirectAttempt(s, o)
    \/ \E s \in HttpSlots : Collect(s)
    \/ close
    \/ get_http_client
    \/ close_http_client

SpecClose == InitClose /\ [][NextClose]_vars

----------------------------------------------------------------------------
(* Helpers applied on their own: the summary that project_status_summary *)
(* computes from the issues of its second GET, and the input summary of  *)
(* an audit entry.                                                        *)

(* Issues as the backing service returns them; a priority may be absent. *)
Issues ==
    [issue_key : {"K1", "K2"}, priority : {"critical", "high", "low", None},
     status : {"open", "closed", "done"}]

IssueLists == UNION {[1..n -> Issues] : n \in 0..MaxIssues}

Blocker(issue) ==
    [key |-> issue.issue_key, priority |-> issue.priority, status |-> issue.status]

(* A summary that lists done issues among the open ones *)
RECURSIVE project_status_summary_DoneIsOpen(_, _, _)
project_status_summary_DoneIsOpen(issue_list, by_status, blockers) ==
    IF issue_list = <<>>
    THEN [by_status |-> by_status, high_priority_open |-> blockers]
    ELSE LET issue == Head(issue_list)
             status == issue.status
         IN project_status_summary_DoneIsOpen(
                Tail(issue_list),
                IF status \in DOMAIN by_status
                THEN [by_status EXCEPT ![status] = @ + 1]
                ELSE by_status @@ (status :> 1),
                IF issue.priority \in {"critical", "high"} /\ status # "closed"
                THEN Append(blockers, Blocker(issue))
                ELSE blockers)

(* The loop of project_status_summary over issue_list: lines 416-432. *)
RECURSIVE project_status_summary(_, _, _)
project_status_summary(issue_list, by_status, blockers) ==
    IF issue_list = <<>>
    THEN [by_status |-> by_status, high_priority_open |-> blockers]
    ELSE LET issue == Head(issue_list)
             status == issue.status
         IN project_status_summary(
                Tail(issue_list),
                IF status \in DOMAIN by_status
                THEN [by_status EXCEPT ![status] = @ + 1]
                ELSE by_status @@ (status :> 1),
                IF issue.priority \in {"critical", "high"} /\ status \notin {"closed", "done"}
                THEN Append(blockers, Blocker(issue))
                ELSE blockers)

(* The handler's result for an issue list: lines 434-441. *)
Summarize(issue_list) ==
    LET r == project_status_summary(issue_list, <<>>, <<>>)
    IN /\ direct.fn = ""
       /\ direct' = [fn |-> "project_status_summary", input |-> issue_list,
                     output |-> [total_issues |-> Len(issue_list),
                                 by_status |-> r.by_status,
                                 high_priority_open |-> r.high_priority_open]]
       /\ UNCHANGED <<clock, httpVars, ncalls, failed_streak, attempts, rateVars, rate_result,
                      hookVars, inv, agentVars, _default_client, closes>>

(* The entry of input_summary for a value whose string form has n       *)
(* characters: v if len(str(v)) < 200 else str(v)[:200] + "...".  The    *)
(* result is the number of characters of the value written and whether   *)
(* the ellipsis follows them.                                             *)
input_summary(n) ==
    IF n < SummaryLimit
    THEN [chars |-> n, ellipsis |-> FALSE]
    ELSE [chars |-> IF n < SummaryLimit THEN n ELSE SummaryLimit, ellipsis |-> TRUE]

(* Values of 0, 1, 199, 200, 201 and 300 characters *)
ValueLengths ==
    {0, 1, SummaryLimit - 1, SummaryLimit, SummaryLimit + 1, SummaryLimit + 100}

SummaryOf(n) ==
    /\ direct.fn = ""
    /\ direct' = [fn |-> "input_summary", input |-> n, output |-> input_summary(n)]
    /\ UNCHANGED <<clock, httpVars, ncalls, failed_streak, attempts, rateVars, rate_result,
                   hookVars, inv, agentVars, _default_client, closes>>

(* block_destructive_commands applied to one Bash input; an input       *)
(* without a command reads as the empty command.                        *)
ShellCommands ==
    Commands \cup {"git push --force; rm -rf x", "Drop Table users", "rm -r ./build"}

BlockOf(command) ==
    /\ direct.fn = ""
    /\ direct' = [fn |-> "block_destructive_commands", input |-> command,
                  output |-> block_destructive_commands([command |-> command])]
    /\ UNCHANGED <<clock, httpVars, ncalls, failed_streak, attempts, rateVars, rate_result,
                   hookVars, inv, agentVars, _default_client, closes>>

NextHelpers ==
    \/ \E issue_list \in IssueLists : Summarize(issue_list)
    \/ \E n \in ValueLengths : SummaryOf(n)
    \/ \E command \in ShellCommands : BlockOf(command)

SpecHelpers == InitClose /\ [][NextHelpers]_vars

----------------------------------------------------------------------------
(* The rate limiter on its own: the hook called directly, for a few tool  *)
(* names, while time passes in steps that land on both sides of the       *)
(* 60-second boundary.                                                    *)

RateTools == {Mcp("list_projects"), Bash}

ElapseSteps == {30, 31}

RateCheck(tool_name) ==
    /\ rate_limit_tool_calls(tool_name)
    /\ rate_result' = [tool |-> tool_name, at |-> clock, outcome |-> RateOutcome(tool_name)]
    /\ UNCHANGED <<clock, httpVars, ncalls, failed_streak, attempts, hookVars, inv, agentVars, libVars>>

Elapse ==
    /\ \E d \in ElapseSteps :
          /\ clock + d <= MaxRateClock
          /\ clock' = clock + d
    /\ UNCHANGED <<httpVars, ncalls, rateVars, rate_result, failed_streak, attempts, hookVars, inv, agentVars, libVars>>

InitRate ==
    /\ clock = 0
    /\ ncalls = 0
    /\ ClientInit
    /\ max_retries = 0 /\ circuit_threshold = 1 /\ circuit_timeout = 1
    /\ RateInit
    /\ MAX_CALLS_PER_MINUTE \in 0..MaxRateLimit
    /\ HookInit
    /\ AgentInit
    /\ LibInit
    /\ env_allowed = <<"">>

NextRate ==
    \/ \E t \in RateTools : RateCheck(t)
    \/ Elapse

SpecRate == InitRate /\ [][NextRate]_vars

----------------------------------------------------------------------------
(* The whole pipeline: invocations pass the gates, the handler and the    *)
(* PostToolUse hook, one at a time.                                       *)

PipeSlots == {1}

(* The variable unset or "", and the value " A," *)
PipeEnv == {<<"">>, <<" A", "">>}

(* The tools driven through the pipeline: one per branch of the scope     *)
(* gate and per kind of handler.                                          *)
PipeTools ==
    {Mcp("list_issues"), Mcp("get_project"), Mcp("update_issue"),
     Mcp("create_decision"), Mcp("project_status_summary")}

(* The inputs a driven tool is given: the issue_id key is read only by    *)
(* the issue-scoped branch of the gate and by the issue tools' schemas.   *)
PipeInputs(tool_name) ==
    IF tool_name \in _ISSUE_SCOPED_TOOLS
    THEN ToolInputs
    ELSE {i \in ToolInputs : i.issue_id = ""}

InitPipe ==
    /\ clock = 0
    /\ ncalls = 0
    /\ ClientInit
    /\ max_retries = 1 /\ circuit_threshold = 1 /\ circuit_timeout = MaxTimeoutBound
    /\ RateInit
    /\ MAX_CALLS_PER_MINUTE = 1
    /\ HookInit
    /\ AgentInit
    /\ LibInit
    /\ env_allowed \in PipeEnv

NextPipe ==
    \/ \E s \in PipeSlots, t \in PipeTools : \E i \in PipeInputs(t) : Invoke(s, t, i)
    \/ \E s \in PipeSlots, i \in BashInputs : Invoke(s, Bash, i)
    \/ \E s \in PipeSlots : AuditPre(s)
    \/ \E s \in PipeSlots : RatePre(s)
    \/ \E s \in PipeSlots : ScopePre(s)
    \/ \E s \in PipeSlots : ScopeResume(s)
    \/ \E s \in PipeSlots : DestructivePre(s)
    \/ \E s \in PipeSlots : Handler(s)
    \/ \E s \in PipeSlots : HandlerResume(s)
    \/ \E s \in PipeSlots : SummaryResume(s)
    \/ \E s \in PipeSlots : Post(s)
    \/ \E s \in PipeSlots : Done(s)
    \/ \E s \in PipeSlots, o \in Outcomes : Attempt(s, o)
    \/ \E s \in PipeSlots : _request_backoff(s)

SpecPipe == InitPipe /\ [][NextPipe]_vars

----------------------------------------------------------------------------
(* The audit trail under concurrency: two invocations in flight at a      *)
(* time, of the shell tool and of create_issue with an input its schema   *)
(* rejects, so that no call waits on the backing service.                 *)

AuditCalls ==
    {<<Bash, i>> : i \in {j \in BashInputs : j.command = "ls -la"}}
    \cup {<<Mcp("create_issue"), i>> :
             i \in {j \in ToolInputs :
                      j.project_id = "A" /\ j.issue_id = "" /\ ~j.fields_ok}}

InvokeConcurrent(s, tool_name, tool_input) ==
    /\ inv[s].pc = "idle"
    /\ ncalls < MaxAuditCalls
    /\ ncalls' = ncalls + 1
    /\ inv' = [inv EXCEPT ![s] =
          [IdleInv EXCEPT !.pc = "pre", !.id = ncalls + 1, !.tool = tool_name,
                          !.input = tool_input, !.gate = NextGate(tool_name, 1)]]
    /\ UNCHANGED <<clock, httpVars, rateVars, rate_result, failed_streak, attempts, hookVars, agentVars, libVars>>

InitAudit ==
    /\ clock = 0
    /\ ncalls = 0
    /\ ClientInit
    /\ max_retries = 0 /\ circuit_threshold = 1 /\ circuit_timeout = 1
    /\ RateInit
    /\ MAX_CALLS_PER_MINUTE = MaxRateLimit
    /\ HookInit
    /\ AgentInit
    /\ LibInit
    /\ env_allowed = <<"">>

NextAudit ==
    \/ \E s \in Slots, c \in AuditCalls : InvokeConcurrent(s, c[1], c[2])
    \/ \E s \in Slots : AuditPre(s)
    \/ \E s \in Slots : RatePre(s)
    \/ \E s \in Slots : ScopePre(s)
    \/ \E s \in Slots : DestructivePre(s)
    \/ \E s \in Slots : Handler(s)
    \/ \E s \in Slots : Post(s)
    \/ \E s \in Slots : Done(s)

SpecAudit == InitAudit /\ [][NextAudit]_vars

----------------------------------------------------------------------------
(* The scope gate on its own: enforce_project_scope awaited directly with *)
(* any tool name and input, while TURBO_ALLOWED_PROJECT_IDS changes       *)
(* between and during the calls.                                          *)

ScopeGate == CHOOSE i \in DOMAIN PreToolUse : PreToolUse[i].hook = "enforce_project_scope"

(* Unset or "", " ", " A,", "B" and "," *)
ScopeEnv == {<<"">>, <<" ">>, <<" A", "">>, <<"B">>, <<"", "">>}

ScopeTools == {Mcp(name) : name \in TOOL_NAMES} \cup {Bash}

ScopeInputs == {i \in ToolInputs : i.fields_ok}

CallScope(s, tool_name, tool_input) ==
    /\ inv[s].pc = "idle"
    /\ ncalls < MaxCalls
    /\ ncalls' = ncalls + 1
    /\ inv' = [inv EXCEPT ![s] =
          [IdleInv EXCEPT !.pc = "pre", !.id = ncalls + 1, !.tool = tool_name,
                          !.input = tool_input, !.gate = ScopeGate]]
    /\ UNCHANGED <<clock, httpVars, rateVars, rate_result, failed_streak, attempts, hookVars, agentVars, libVars>>

(* The gate has returned to its caller. *)
ScopeReturned(s) ==
    /\ inv[s].ran = <<"enforce_project_scope">>
    /\ inv[s].pc # "scope_http"

ScopeReturn(s) ==
    /\ ScopeReturned(s)
    /\ inv' = [inv EXCEPT ![s] = IdleInv]
    /\ UNCHANGED <<clock, httpVars, ncalls, rateVars, rate_result, failed_streak, attempts,
                   hookVars, agentVars, libVars>>

(* os.environ["TURBO_ALLOWED_PROJECT_IDS"] = ... *)
SetEnv(v) ==
    /\ env_allowed # v
    /\ env_allowed' = v
    /\ UNCHANGED <<clock, httpVars, ncalls, rateVars, rate_result, failed_streak, attempts,
                   _issue_project_cache, audit_log, audit_files, inv, agentVars, libVars>>

InitScope ==
    /\ clock = 0
    /\ ncalls = 0
    /\ ClientInit
    /\ max_retries = 1 /\ circuit_threshold = 1 /\ circuit_timeout = MaxTimeoutBound
    /\ RateInit
    /\ MAX_CALLS_PER_MINUTE = MaxRateLimit
    /\ HookInit
    /\ AgentInit
    /\ LibInit
    /\ env_allowed \in ScopeEnv

NextScope ==
    \/ \E s \in PipeSlots, t \in ScopeTools, i \in ScopeInputs : CallScope(s, t, i)
    \/ \E s \in PipeSlots : ScopePre(s)
    \/ \E s \in PipeSlots : ScopeResume(s)
    \/ \E s \in PipeSlots : ScopeReturn(s)
    \/ \E s \in PipeSlots, o \in Outcomes : Attempt(s, o)
    \/ \E s \in PipeSlots : _request_backoff(s)
    \/ \E v \in ScopeEnv : SetEnv(v)

SpecScope == InitScope /\ [][NextScope]_vars

----------------------------------------------------------------------------
(* Scope checks racing on the cache: enforce_project_scope awaited from   *)
(* two tasks for issue-scoped tools, each suspended inside its lookup,    *)
(* and the test helper that clears the cache.                             *)

RaceCalls ==
    {<<t, i>> \in {Mcp("get_issue")} \X ScopeInputs :
        i.issue_id # "" /\ i.project_id = ""}

clear_issue_cache ==
    /\ \E i \in IssueIds : _issue_project_cache[i] # ""
    /\ _issue_project_cache' = [i \in IssueIds |-> ""]
    /\ UNCHANGED <<clock, httpVars, ncalls, rateVars, rate_result, failed_streak, attempts,
                   env_allowed, audit_log, audit_files, inv, agentVars, libVars>>

InitRace ==
    /\ clock = 0
    /\ ncalls = 0
    /\ ClientInit
    /\ max_retries = 0 /\ circuit_threshold = MaxThresholdBound /\ circuit_timeout = 1
    /\ RateInit
    /\ MAX_CALLS_PER_MINUTE = MaxRateLimit
    /\ HookInit
    /\ AgentInit
    /\ LibInit
    /\ env_allowed \in {<<" A", "">>, <<"B">>}

NextRace ==
    \/ \E s \in Slots, c \in RaceCalls : CallScope(s, c[1], c[2])
    \/ \E s \in Slots : ScopePre(s)
    \/ \E s \in Slots : ScopeResume(s)
    \/ \E s \in Slots : ScopeReturn(s)
    \/ \E s \in Slots, o \in {x \in Outcomes : x.status \in {200, 404}} : Attempt(s, o)
    \/ clear_issue_cache

SpecRace == InitRace /\ [][NextRace]_vars

----------------------------------------------------------------------------
(* Agents constructed one after the other, with any small bounds and     *)
(* with or without a project scope, while the allow-list variable is     *)
(* also set from outside; each agent's session is entered and left.      *)

InitAgent ==
    /\ clock = 0
    /\ ncalls = 0
    /\ ClientInit
    /\ max_retries = 0 /\ circuit_threshold = 1 /\ circuit_timeout = 1
    /\ RateInit
    /\ MAX_CALLS_PER_MINUTE = MaxRateLimit
    /\ HookInit
    /\ AgentInit
    /\ LibInit
    /\ env_allowed \in ScopeEnv

NextAgent ==
    \/ \E project_id \in ProjectIds \cup {""}, max_turns \in 0..2, max_budget_usd \in -1..1 :
          TurboAgent(project_id, max_turns, max_budget_usd)
    \/ \E v \in ScopeEnv : SetEnv(v)
    \/ __aenter__
    \/ __aexit__

SpecAgent == InitAgent /\ [][NextAgent]_vars

----------------------------------------------------------------------------
(* The session of one agent entered, used and left in any order of calls. *)

InitSession ==
    /\ clock = 0
    /\ ncalls = 0
    /\ ClientInit
    /\ max_retries = 0 /\ circuit_threshold = 1 /\ circuit_timeout = 1
    /\ RateInit
    /\ MAX_CALLS_PER_MINUTE = MaxRateLimit
    /\ HookInit
    /\ env_allowed = <<"A">>
    /\ agent = [n |-> 1, exists |-> TRUE, project_id |-> "A", max_turns |-> 1,
                max_budget_usd |-> 1, asked |-> <<"A", 1, 1>>, error |-> ""]
    /\ session = [_client |-> FALSE, calls |-> 0, op |-> "", error |-> ""]
    /\ llm = [options |-> NoOptions, opens |-> 0, closes |-> 0, queries |-> 0]
    /\ returned = NoReturn
    /\ LibInit

NextSession ==
    \/ __aenter__
    \/ __aexit__
    \/ \E messages \in {m \in MessageSequences : Len(m) <= 2} : CallSend(messages)

SpecSession == InitSession /\ [][NextSession]_vars

(* One-shot runs of one agent, the runtime answering with any sequence   *)
(* of messages that ends in a result message.                             *)
NextRun == \E messages \in MessageSequences : CallRun(messages)

SpecRun == InitSession /\ [][NextRun]_vars

----------------------------------------------------------------------------
(* Claims about the rate limiter *)

InWindow(tool_name, from) ==
    {j \in DOMAIN admitted[tool_name] :
        /\ admitted[tool_name][j] >= from
        /\ admitted[tool_name][j] - from <= RateWindow}

\* C6: under rate limit N, every 60-second window of monotonic time holds at
\* most N admitted calls of one tool name; a call that finds N admitted calls
\* inside its window is denied, with a reason containing 'Rate limit'.
C6_AtMostNPerWindow ==
    /\ \A t \in HookToolNames : \A i \in DOMAIN admitted[t] :
          Cardinality(InWindow(t, admitted[t][i])) <= MAX_CALLS_PER_MINUTE
    /\ rate_result.outcome.decision = "continue" =>
          Cardinality(InWindow(rate_result.tool, rate_result.at - RateWindow))
              <= MAX_CALLS_PER_MINUTE
    /\ rate_result.outcome.decision = "deny" =>
          rate_result.outcome.reason[1] =
              "Rate limit exceeded: <tool> called <n> times in the last minute (max <max>). Wait before retrying."

C6_Witness ==
    /\ MAX_CALLS_PER_MINUTE >= 1
    /\ rate_result.outcome.decision = "deny"
    /\ Len(admitted[rate_result.tool]) > MAX_CALLS_PER_MINUTE
    /\ Cardinality(InWindow(rate_result.tool, rate_result.at - RateWindow))
          = MAX_CALLS_PER_MINUTE

\* C21: a call of tool t is denied only when at least N admitted calls of t
\* have timestamps within the 60 seconds before it (so it is admitted
\* whenever fewer than N have, also after t hit its limit and entries aged
\* out), and the check leaves no entry older than 60 seconds in t's window.
C21_AdmittedWhenWindowHasRoom ==
    /\ rate_result.outcome.decision = "deny" =>
          Cardinality(InWindow(rate_result.tool, rate_result.at - RateWindow))
              >= MAX_CALLS_PER_MINUTE
    /\ \A t \in HookToolNames : \A i \in DOMAIN _call_timestamps[t] :
          \E j \in DOMAIN admitted[t] : admitted[t][j] = _call_timestamps[t][i]
    /\ \A i \in DOMAIN _call_timestamps[rate_result.tool] :
          rate_result.at - _call_timestamps[rate_result.tool][i] <= RateWindow

(* A tool admitted N times at time 0 is admitted again 61 seconds later. *)
C21_Witness ==
    /\ MAX_CALLS_PER_MINUTE = 2
    /\ rate_result.outcome.decision = "continue"
    /\ rate_result.at = 61
    /\ admitted[rate_result.tool] = <<0, 0, 61>>
    /\ _call_timestamps[rate_result.tool] = <<61>>

(* seq is what is left of old after dropping entries from its front. *)
IsSuffix(seq, old) ==
    \E k \in 0..Len(old) : seq = SubSeq(old, k + 1, Len(old))

\* C22: a rate-limit check of tool t (a step of the limiter at one clock
\* reading) leaves the window of every other tool as it was, and a check that
\* denies adds no timestamp to t's window: what is left is the old window
\* less its pruned entries.
C22_WindowsIndependent ==
    [][clock' = clock =>
          LET t == rate_result'.tool
          IN /\ \A u \in HookToolNames \ {t} :
                   _call_timestamps'[u] = _call_timestamps[u]
             /\ rate_result'.outcome.decision = "deny"
                   => /\ IsSuffix(_call_timestamps'[t], _call_timestamps[t])
                      /\ Len(_call_timestamps'[t]) >= MAX_CALLS_PER_MINUTE]_vars

(* Bash was denied with its window full while list_projects, admitted    *)
(* before at the same time, keeps its own window.                         *)
C22_Witness ==
    /\ MAX_CALLS_PER_MINUTE = 1
    /\ rate_result.tool = Bash /\ rate_result.outcome.decision = "deny"
    /\ rate_result.at = 61
    /\ _call_timestamps[Bash] = <<61>>
    /\ admitted[Bash] = <<0, 61>>
    /\ _call_timestamps[Mcp("list_projects")] = <<30>>

----------------------------------------------------------------------------
(* Claims about the pipeline *)

(* The invocation in slot s went past the whole pre-call chain. *)
Admitted(s) == inv[s].pc \in {"handler", "handler_http", "handler_http2", "post"}

\* C1: with a non-empty allow-list, a call to an issue-scoped tool that the
\* scope gate admits names an issue whose owning project is in the
\* allow-list.
C1_AdmittedIssueInScope ==
    \A s \in Slots :
        (/\ Admitted(s)
         /\ ~inv[s].allowed.none
         /\ inv[s].tool \in _ISSUE_SCOPED_TOOLS
         /\ inv[s].input.issue_id # "")
            => IssueOwner(inv[s].input.issue_id) \in inv[s].allowed.ids

\* C2: with a non-empty allow-list, a write tool call whose handler issued
\* a request to the backing service went through the scope gate, and the
\* gate compared a project with the allow-list and found it there.
C2_WriteWasScopeChecked ==
    \A s \in Slots :
        (/\ inv[s].tool \in {Mcp(n) : n \in WRITE_TOOLS}
         /\ inv[s].handler_reqs > 0
         /\ ~_get_allowed_project_ids.none)
            => /\ ~inv[s].allowed.none
               /\ inv[s].scope_checked # ""
               /\ inv[s].scope_checked \in inv[s].allowed.ids

C7_EveryInvocationAudited ==
    /\ \A k \in 1..ncalls :
          \/ \E i \in DOMAIN audit_log :
                /\ audit_log[i].event = "tool_call"
                /\ audit_log[i].tool_use_id = k
          \/ \E s \in Slots : inv[s].id = k /\ inv[s].pc = "pre" /\ inv[s].ran = <<>>
    /\ \A s \in Slots :
          inv[s].ran # <<>> =>
             /\ inv[s].ran[1] = "audit_log_tool_call"
             /\ \E i \in DOMAIN audit_log :
                   /\ audit_log[i].event = "tool_call"
                   /\ audit_log[i].tool_use_id = inv[s].id
                   /\ audit_log[i].tool = inv[s].tool

C7_Witness ==
    \E s \in Slots :
        /\ inv[s].denied
        /\ inv[s].ran[Len(inv[s].ran)] \in {"rate_limit_tool_calls", "enforce_project_scope",
                                            "block_destructive_commands"}
        /\ \E i \in DOMAIN audit_log :
              audit_log[i].event = "tool_call" /\ audit_log[i].tool_use_id = inv[s].id

\* C9: a tool handler returns a result envelope whatever its backing-service
\* calls do: no exception propagates past the handler.
C9_HandlerNeverRaises ==
    \A s \in Slots : ~inv[s].result.raised

KindMessages ==
    {"Cannot connect to Turbo API at <base_url>",
     "Timeout on METHOD PATH after <attempts> attempts",
     "Circuit breaker open. API calls paused for <remaining>s."}

\* C10: when the handler's backing-service call failed with a connectivity
\* error, a timeout or a circuit-open short-circuit, the tool result is
\* error-flagged and its text is that kind's own message.
C10_KindMessageSurfaced ==
    \A s \in Slots :
        (/\ inv[s].pc = "post"
         /\ inv[s].exc.kind = "TurboAPIError"
         /\ inv[s].exc.message \in KindMessages)
            => /\ inv[s].result.isError
               /\ inv[s].result.text[1] = inv[s].exc.message

----------------------------------------------------------------------------
(* Claims about the HTTP client *)

RequestIssued == \E s \in Slots : hc'[s].reqs = hc[s].reqs + 1

CallReturns(s) == hc[s].pc # "ret" /\ hc'[s].pc = "ret"

\* C4: from the moment the circuit opens until its recovery deadline passes,
\* the client issues no HTTP request (no request is issued at a time when
\* the open-until deadline is set and still in the future).
C4_NoRequestWhileOpen == [][RequestIssued => ~CircuitOpen]_vars

(* A call begins in slot s. *)
CallBegins(s) == hc[s].pc = "idle" /\ hc'[s].pc # "idle"

\* C11: after circuit_threshold calls in a row that failed on a
\* non-retryable response, with no success in between, the next call made
\* before the recovery deadline raises circuit_open without issuing an
\* HTTP request.
C11_OpensAfterThresholdFailures ==
    [][\A s \in Slots :
          (/\ CallBegins(s)
           /\ failed_streak.n >= circuit_threshold
           /\ clock < failed_streak.at + circuit_timeout)
              => /\ hc'[s].pc = "ret"
                 /\ hc'[s].res = CircuitOpenError
                 /\ hc'[s].reqs = 0]_vars

\* C5: when the probe call (the call admitted after the recovery deadline
\* has passed) fails, the circuit is open again at the moment it returns.
C5_FailedProbeReopens ==
    [][\A s \in Slots :
          (CallReturns(s) /\ hc'[s].probe /\ hc'[s].res.kind = "TurboAPIError")
              => circuit_open_until' # {}]_vars

(* Slot s takes the response of a round trip, a 200. *)
Gets200(s) ==
    /\ hc[s].pc = "try" /\ hc'[s].pc = "ret"
    /\ attempts'.last.kind = "response" /\ attempts'.last.status = 200

\* C12: a call that begins once the recovery deadline has passed is admitted
\* as the probe and goes on to issue a request; when the probe gets a 200 the
\* circuit is closed and the failure counter is 0 as it returns; and a call
\* that begins with the circuit closed is admitted.
C12_ProbeAdmittedSuccessCloses ==
    [][\A s \in Slots :
          /\ (CallBegins(s) /\ DeadlinePassed)
                => (hc'[s].pc = "try" /\ hc'[s].probe /\ hc'[s].reqs = 0)
          /\ (CallReturns(s) /\ hc[s].probe) => hc'[s].reqs >= 1
          /\ (Gets200(s) /\ hc[s].probe)
                => (circuit_open_until' = {} /\ consecutive_failures' = 0)
          /\ (CallBegins(s) /\ circuit_open_until = {})
                => (hc'[s].pc = "try" /\ ~hc'[s].probe)]_vars

(* A probe that was retried has returned a decoded body, the circuit closed. *)
C12_Witness ==
    \E s \in Slots :
        /\ hc[s].pc = "ret" /\ hc[s].probe /\ hc[s].res.kind = "ok"
        /\ hc[s].reqs >= 2
        /\ circuit_open_until = {} /\ consecutive_failures = 0

(* Every round trip of the call so far had an outcome of class c. *)
EveryAttempt(c) ==
    /\ attempts.outs # <<>>
    /\ \A i \in 1..Len(attempts.outs) : attempts.outs[i] = c

\* C13: a call never issues more than 1 + max_retries requests; a call that
\* has returned after every attempt got a retryable status, or after every
\* attempt timed out, issued exactly 1 + max_retries requests and raised a
\* TurboAPIError carrying the last status (0 and the timeout text when the
\* attempts timed out).
C13_RetryBudget ==
    \A s \in HttpSlots :
        /\ hc[s].reqs <= 1 + max_retries
        /\ hc[s].reqs = Len(attempts.outs)
        /\ (hc[s].pc = "ret" /\ EveryAttempt("retryable_status"))
              => /\ hc[s].reqs = 1 + max_retries
                 /\ hc[s].res.kind = "TurboAPIError"
                 /\ hc[s].res.status_code = attempts.last.status
                 /\ hc[s].res.status_code \in RETRYABLE_STATUS_CODES
        /\ (hc[s].pc = "ret" /\ EveryAttempt("timeout"))
              => /\ hc[s].reqs = 1 + max_retries
                 /\ hc[s].res.kind = "TurboAPIError"
                 /\ hc[s].res.status_code = 0
                 /\ hc[s].res.body = "Request timed out"

(* A call with two retries has returned after three retryable statuses. *)
C13_Witness ==
    \E s \in HttpSlots :
        /\ hc[s].pc = "ret" /\ EveryAttempt("retryable_status")
        /\ max_retries = 2 /\ hc[s].reqs = 3
        /\ hc[s].res.status_code = 504

TransientClasses == {"retryable_status", "connect", "timeout"}

(* Slot s takes the outcome of a round trip. *)
RoundTrip(s) == hc[s].pc = "try" /\ hc'[s].reqs = hc[s].reqs + 1

NonRetryableResponse(o) ==
    /\ o.kind = "response"
    /\ o.status >= 400
    /\ o.status \notin {429, 502, 503, 504}

(* The call in slot s ended on its latest response, without another      *)
(* request, raising a TurboAPIError with that status and the given body. *)
RaisedOnLast(s, body) ==
    /\ hc[s].pc = "ret"
    /\ hc[s].reqs = Len(attempts.outs)
    /\ hc[s].res.kind = "TurboAPIError"
    /\ hc[s].res.status_code = attempts.last.status
    /\ hc[s].res.body = body

----------------------------------------------------------------------------
(* Claims about the scope gate *)

(* enforce_project_scope runs for the call in slot s, up to its return or *)
(* its suspension on the lookup.                                          *)
GateRuns(s) ==
    /\ inv[s].pc = "pre" /\ Hook(s) = "enforce_project_scope"
    /\ inv'[s].ran # inv[s].ran

(* The gate resumes after the lookup and returns. *)
GateResumes(s) == inv[s].pc = "scope_http" /\ inv'[s].pc # "scope_http"

(* The gate returns in this step without having touched the client. *)
DecidesOffline(s) ==
    /\ inv'[s].pc # "scope_http"
    /\ inv'[s].gate_reqs = 0
    /\ hc' = hc /\ transport' = transport
    /\ consecutive_failures' = consecutive_failures
    /\ circuit_open_until' = circuit_open_until

NonEmptyAllowList ==
    /\ ~_get_allowed_project_ids.none
    /\ _get_allowed_project_ids.ids # {}

InAllowList(pid) == pid \in _get_allowed_project_ids.ids

\* C16: with a non-empty allow-list, for a tool that is not a cross-project
\* read tool and whose input carries a project_id, the gate passes iff that
\* project_id is in the allow-list; a denial names the project id; and the
\* gate makes no HTTP request.
C16_DirectProjectCheck ==
    [][\A s \in Slots :
          (/\ GateRuns(s)
           /\ NonEmptyAllowList
           /\ inv[s].tool \notin _CROSS_PROJECT_TOOLS
           /\ inv[s].input.project_id # "")
              => /\ DecidesOffline(s)
                 /\ ~inv'[s].denied <=> InAllowList(inv[s].input.project_id)
                 /\ inv'[s].denied
                       => inv'[s].result.text =
                            <<"Project <pid> is not in the allowed scope. Allowed: <allowed>",
                              inv[s].input.project_id>>]_vars

(* create_issue for project B was denied under the allow-list {A}. *)
C16_Witness ==
    \E s \in Slots :
        /\ ScopeReturned(s) /\ inv[s].denied
        /\ inv[s].tool = Mcp("create_issue")
        /\ inv[s].input.project_id = "B"
        /\ inv[s].allowed = [none |-> FALSE, ids |-> {"A"}]
        /\ inv[s].result.text[2] = "B"
        /\ inv[s].gate_reqs = 0

\* C17: with a non-empty allow-list, a cross-project read tool is denied iff
\* its input carries a non-empty project_id that is not in the allow-list;
\* otherwise it is allowed; the gate makes no HTTP request either way.
C17_CrossProjectCheck ==
    [][\A s \in Slots :
          (/\ GateRuns(s)
           /\ NonEmptyAllowList
           /\ inv[s].tool \in {Mcp("list_projects"), Mcp("list_issues"),
                                Mcp("list_initiatives"), Mcp("list_decisions"),
                                Mcp("get_work_queue"), Mcp("get_next_issue")})
              => /\ DecidesOffline(s)
                 /\ inv'[s].denied <=>
                       (/\ inv[s].input.project_id # ""
                        /\ ~InAllowList(inv[s].input.project_id))]_vars

(* get_next_issue with an issue id and project B was denied under {A}. *)
C17_Witness ==
    \E s \in Slots :
        /\ ScopeReturned(s) /\ inv[s].denied
        /\ inv[s].tool = Mcp("get_next_issue")
        /\ inv[s].input.project_id = "B" /\ inv[s].input.issue_id = "I1"
        /\ inv[s].allowed = [none |-> FALSE, ids |-> {"A"}]
        /\ inv[s].gate_reqs = 0

\* C18: when the lookup of an uncached issue's project raises, whatever the
\* error, the gate (entered with a non-empty allow-list) denies the call
\* with a reason containing the word "safety" and leaves the cache as it
\* was.
C18_FailClosed ==
    [][\A s \in Slots :
          (/\ GateResumes(s)
           /\ inv[s].allowed.ids # {}
           /\ hc[s].res.kind # "ok")
              => /\ inv'[s].denied
                 /\ Contains(Chars(inv'[s].result.text[1]), Chars("safety"))
                 /\ inv'[s].result.text[2] = inv[s].input.issue_id
                 /\ _issue_project_cache' = _issue_project_cache]_vars

(* A lookup failed after its retry and the call was denied for safety. *)
C18_Witness ==
    \E s \in Slots :
        /\ ScopeReturned(s) /\ inv[s].denied
        /\ inv[s].tool = Mcp("update_issue") /\ inv[s].input.issue_id = "I1"
        /\ inv[s].gate_reqs = 2
        /\ inv[s].result.text[1] =
              "Cannot verify project scope for issue <issue_id>. Access denied for safety."
        /\ _issue_project_cache["I1"] = ""

\* C19: with a non-empty allow-list and a cached project for the issue id,
\* the gate decides an issue-scoped call from the cache alone: no HTTP
\* request, the cache unchanged, and the call allowed iff the cached project
\* is in the allow-list.
C19_CacheHitDecides ==
    [][\A s \in Slots :
          (/\ GateRuns(s)
           /\ NonEmptyAllowList
           /\ inv[s].tool \in _ISSUE_SCOPED_TOOLS
           /\ inv[s].input.issue_id # ""
           /\ _issue_project_cache[inv[s].input.issue_id] # "")
              => /\ DecidesOffline(s)
                 /\ _issue_project_cache' = _issue_project_cache
                 /\ ~inv'[s].denied <=>
                       InAllowList(_issue_project_cache[inv[s].input.issue_id])]_vars

(* TURBO_ALLOWED_PROJECT_IDS is unset, empty or whitespace. *)
EnvBlank == env_allowed \in {<<"">>, <<" ">>}

\* C20: a scope check made while TURBO_ALLOWED_PROJECT_IDS is unset or blank
\* passes the call, whatever the tool and the input, makes no HTTP request
\* and leaves the cache as it was; the value used is the one the variable
\* has when the gate runs.
C20_BlankDisablesGate ==
    [][\A s \in Slots :
          (GateRuns(s) /\ EnvBlank)
              => /\ DecidesOffline(s)
                 /\ ~inv'[s].denied
                 /\ inv'[s].allowed.none
                 /\ _issue_project_cache' = _issue_project_cache]_vars

(* After a call resolved issue I1 under an allow-list, the variable was   *)
(* blanked and a later call for project B and issue I2 passed.            *)
C20_Witness ==
    \E s \in Slots :
        /\ ScopeReturned(s) /\ ~inv[s].denied
        /\ inv[s].id >= 2
        /\ inv[s].tool = Mcp("update_issue")
        /\ inv[s].input.project_id = "B" /\ inv[s].input.issue_id = "I2"
        /\ env_allowed = <<" ">>
        /\ inv[s].allowed.none
        /\ _issue_project_cache = [i \in IssueIds |-> IF i = "I1" THEN "A" ELSE ""]

----------------------------------------------------------------------------
(* Claims about the audit trail *)

(* The lines on disk, oldest first: the last backup down to the live file. *)
RECURSIVE LinesFrom(_, _)
LinesFrom(files, k) ==
    IF k = 0 THEN <<>> ELSE files[k] \o LinesFrom(files, k - 1)

OnDisk(files) == LinesFrom(files, Len(files))

(* Every tool_result line comes after the tool_call line of the same     *)
(* invocation, and no invocation has two lines of one kind.               *)
PairsInOrder(log) ==
    /\ \A i \in DOMAIN log :
          log[i].event = "tool_result" =>
              \E j \in 1..(i - 1) :
                  /\ log[j].event = "tool_call"
                  /\ log[j].tool_use_id = log[i].tool_use_id
                  /\ log[j].tool = log[i].tool
    /\ \A i, j \in DOMAIN log :
          (log[i].event = log[j].event /\ log[i].tool_use_id = log[j].tool_use_id)
              => i = j

(* A step that writes to the audit log writes one whole line at its end. *)
WritesWholeLine ==
    audit_log' # audit_log =>
        /\ \E e \in {audit_log'[Len(audit_log')]} : audit_log' = Append(audit_log, e)
        /\ audit_files'[1] # <<>>
        /\ audit_files'[1][Len(audit_files'[1])] = audit_log'[Len(audit_log')]

\* C23 as stated: every invocation's tool_call line is written before its
\* tool_result line, every line is written whole, in one step, also while
\* another invocation is in flight, and the lines on disk are never modified
\* or removed: what was on disk is still there, in place, after every step.
C23_AuditPairsAppendOnly ==
    [][IF audit_log' = audit_log
       THEN audit_files' = audit_files
       ELSE /\ PairsInOrder(audit_log')
            /\ WritesWholeLine
            /\ SubSeq(OnDisk(audit_files'), 1, Len(OnDisk(audit_files')) - 1)
                  = OnDisk(audit_files)]_vars

(* The lines on disk are the latest lines written, unchanged and in order. *)
DiskIsTailOfLog ==
    LET disk == OnDisk(audit_files')
    IN /\ Len(disk) <= Len(audit_log')
       /\ disk = SubSeq(audit_log', Len(audit_log') - Len(disk) + 1, Len(audit_log'))

\* C23 amended: every invocation's tool_call line is written before its
\* tool_result line, every line is written whole, in one step, also while
\* another invocation is in flight, and the lines on disk are never
\* modified or reordered; lines are removed only by a rollover that finds
\* backupCount backups and deletes the oldest one.
C23_AuditPairsAppendOnlyUntilRotated ==
    [][IF audit_log' = audit_log
       THEN audit_files' = audit_files
       ELSE /\ PairsInOrder(audit_log')
            /\ WritesWholeLine
            /\ DiskIsTailOfLog
            /\ \/ OnDisk(audit_files') =
                     Append(OnDisk(audit_files), audit_log'[Len(audit_log')])
               \/ /\ Len(audit_files) = backupCount + 1
                  /\ shouldRollover(audit_files)
                  /\ OnDisk(audit_files') =
                        Append(LinesFrom(audit_files, backupCount),
                               audit_log'[Len(audit_log')])]_vars

(* Two invocations in flight together left interleaved pairs, and a      *)
(* later rollover has deleted the oldest line.                            *)
C23_Witness ==
    /\ Len(audit_log) = 7
    /\ audit_log[1].event = "tool_call" /\ audit_log[2].event = "tool_call"
    /\ audit_log[3].event = "tool_result" /\ audit_log[4].event = "tool_result"
    /\ audit_log[3].tool_use_id = audit_log[2].tool_use_id
    /\ audit_log[4].tool_use_id = audit_log[1].tool_use_id
    /\ Len(audit_files) = backupCount + 1
    /\ OnDisk(audit_files) = SubSeq(audit_log, 2, 7)

----------------------------------------------------------------------------
(* Claims about the issue cache *)

(* The step is clear_issue_cache: the cache is emptied by no scope check. *)
CacheCleared ==
    /\ _issue_project_cache' = [i \in IssueIds |-> ""]
    /\ inv' = inv

\* C24: however concurrent scope checks of one uncached issue interleave,
\* the cache holds at most one project id per issue id, and an entry, once
\* present, keeps its value in every step; only clear_issue_cache removes
\* entries.
C24_CacheEntryStable ==
    [][/\ _issue_project_cache' \in [IssueIds -> ProjectIds \cup {""}]
       /\ \A i \in IssueIds :
             _issue_project_cache[i] # "" =>
                 \/ _issue_project_cache'[i] = _issue_project_cache[i]
                 \/ CacheCleared]_vars

(* Both tasks missed the cache for issue I1 and looked it up; the first  *)
(* has written the entry and returned, the second has its answer and is  *)
(* about to write.                                                        *)
C24_Witness ==
    /\ inv[1].input.issue_id = "I1" /\ inv[2].input.issue_id = "I1"
    /\ ScopeReturned(1) /\ inv[1].gate_reqs = 1 /\ inv[1].scope_checked = "A"
    /\ _issue_project_cache["I1"] = "A"
    /\ inv[2].pc = "scope_http" /\ hc[2].pc = "ret" /\ hc[2].reqs = 1
    /\ hc[2].res.kind = "ok" /\ hc[2].res.body = "object"

----------------------------------------------------------------------------
(* Claims about the agent *)

RECURSIVE AllBlocks(_)
AllBlocks(messages) ==
    IF messages = <<>> THEN <<>> ELSE Head(messages).content \o AllBlocks(Tail(messages))

(* The text of the last text block of the assistant messages, "" if none. *)
LastAssistantText(messages) ==
    LET texts == SelectSeq(AllBlocks(messages), LAMBDA b : b.kind = "text")
    IN IF texts = <<>> THEN "" ELSE texts[Len(texts)].text

\* C25: for every sequence of messages that ends in a result message, run
\* returns the text of the result message when it carries one, and
\* otherwise the text of the last assistant text block before it.
C25_RunReturnsFinalText ==
    returned.by = "run" =>
        LET last == returned.messages[Len(returned.messages)]
        IN returned.text = IF last.result \notin {None, ""}
                           THEN last.result
                           ELSE LastAssistantText(returned.messages)

(* A step that is a call on the session. *)
SessionCall(op) == session'.calls = session.calls + 1 /\ session'.op = op

(* The LLM client is open: entered and not yet exited. *)
ClientOpen == llm.opens > llm.closes

\* C26: entering the session opens the LLM client once, exiting closes it
\* once and a further exit does nothing; a send before entry or after exit
\* fails with an error and the LLM client is not contacted.
C26_SessionOpensAndClosesOnce ==
    [][/\ SessionCall("__aenter__") =>
             llm' = [llm EXCEPT !.opens = @ + 1, !.options = llm'.options]
       /\ SessionCall("__aexit__") =>
             llm' = IF ClientOpen THEN [llm EXCEPT !.closes = @ + 1] ELSE llm
       /\ SessionCall("send") /\ ~ClientOpen =>
             /\ session'.error = "RuntimeError"
             /\ llm' = llm
             /\ returned' = returned
       /\ llm'.opens - llm'.closes \in {0, 1}]_vars

(* Entered, exited, then two more calls of which the last is a send that *)
(* failed: the client was opened once, closed once and never queried.    *)
C26_Witness ==
    /\ session.calls = 4 /\ session.op = "send" /\ session.error = "RuntimeError"
    /\ llm.opens = 1 /\ llm.closes = 1 /\ llm.queries = 0

(* A step that is a construction of an agent. *)
Constructs == agent'.n = agent.n + 1

\* C27: a construction with max_turns < 1 or max_budget_usd <= 0 raises
\* and changes nothing, the allow-list variable included; after a
\* construction with valid bounds the agent holds them, and the options
\* handed to the LLM runtime carry the max_turns and max_budget_usd of the
\* agent.
C27_BoundsValidatedFirst ==
    [][/\ Constructs =>
             IF agent'.asked[2] < 1 \/ agent'.asked[3] <= 0
             THEN /\ agent'.error = "ValueError"
                  /\ env_allowed' = env_allowed
                  /\ agent' = [agent EXCEPT !.n = agent'.n, !.asked = agent'.asked,
                                            !.error = agent'.error]
                  /\ llm' = llm /\ session' = session
             ELSE /\ agent'.error = "" /\ agent'.exists
                  /\ agent'.max_turns = agent'.asked[2]
                  /\ agent'.max_budget_usd = agent'.asked[3]
       /\ llm'.options # NoOptions =>
             /\ agent.exists
             /\ llm'.options.max_turns = agent.max_turns \/ llm'.options = llm.options
             /\ llm'.options.max_budget_usd = agent.max_budget_usd
                   \/ llm'.options = llm.options]_vars

(* A second construction, with max_turns 0 and scope B, has failed: the  *)
(* allow-list is still the one of the first agent, whose session holds   *)
(* options with its bounds.                                               *)
C27_Witness ==
    /\ agent.n = 2 /\ agent.error = "ValueError" /\ agent.asked = <<"B", 0, 1>>
    /\ agent.project_id = "A" /\ agent.max_turns = 2 /\ agent.max_budget_usd = 1
    /\ env_allowed = <<"A">>
    /\ session._client
    /\ llm.options.max_turns = 2 /\ llm.options.max_budget_usd = 1

\* C28: after an agent is constructed with project scope P the scope gate
\* reads the allow-list {P}, whatever the allow-list was before; after an
\* agent is constructed without a project scope the allow-list variable is
\* as it was.
C28_ScopeReplacesAllowList ==
    [][Constructs /\ agent'.error = "" =>
          IF agent'.project_id # ""
          THEN _get_allowed_project_ids' = [none |-> FALSE, ids |-> {agent'.project_id}]
          ELSE env_allowed' = env_allowed]_vars

(* A second agent, scoped to A, was constructed after one scoped to B.   *)
C28_Witness ==
    /\ agent.n = 2 /\ agent.error = "" /\ agent.project_id = "A"
    /\ env_allowed = <<"A">>
    /\ _get_allowed_project_ids = [none |-> FALSE, ids |-> {"A"}]

----------------------------------------------------------------------------
(* Claims about the catalogs *)

\* C29: READ_TOOLS and WRITE_TOOLS are disjoint and their union is the
\* tool catalog, so every tool of the catalog, and so the tool of every
\* call that reaches the scope gate, is in exactly one of the two.
C29_ReadWritePartition ==
    /\ READ_TOOLS \cap WRITE_TOOLS = {}
    /\ READ_TOOLS \cup WRITE_TOOLS = TOOL_NAMES
    /\ \A s \in PipeSlots :
          inv[s].pc # "idle" /\ inv[s].tool # Bash =>
              (inv[s].tool[2] \in READ_TOOLS) # (inv[s].tool[2] \in WRITE_TOOLS)

(* A write tool is at the scope gate. *)
C29_Witness ==
    /\ inv[1].pc = "pre" /\ inv[1].tool = Mcp("log_work")
    /\ "log_work" \in WRITE_TOOLS /\ "log_work" \notin READ_TOOLS
    /\ "get_issue" \in READ_TOOLS /\ "get_issue" \notin WRITE_TOOLS

\* C30: every tool in the tool list of every subagent handed to the LLM
\* runtime (triager, planner, reporter, worker) is 'mcp__turbo__' followed
\* by a name of the tool catalog.
C30_SubagentToolsInCatalog ==
    /\ {a.name : a \in TURBO_SUBAGENTS} = {"triager", "planner", "reporter", "worker"}
    /\ \A a \in TURBO_SUBAGENTS \cup llm.options.agents :
          \A i \in DOMAIN a.tools :
              \E name \in TOOL_NAMES : a.tools[i] = "mcp__turbo__" \o name

(* The session is entered: the runtime holds the four subagents. *)
C30_Witness ==
    /\ session._client
    /\ llm.options.agents = TURBO_SUBAGENTS
    /\ Cardinality(llm.options.agents) = 4
    /\ \E a \in llm.options.agents : a.name = "worker" /\ a.tools[6] = "mcp__turbo__log_work"

(* The write tools among the tools of a subagent. *)
WriteToolsOf(a) ==
    {name \in WRITE_TOOLS : \E i \in DOMAIN a.tools : a.tools[i] = "mcp__turbo__" \o name}

\* C31: among the subagents handed to the LLM runtime, the triager has no
\* write tool, the planner has create_issue and create_decision, the
\* reporter has add_comment, and the worker has update_issue,
\* start_issue_work and log_work, and none has any other write tool.
C31_LeastPrivilege ==
    \A a \in TURBO_SUBAGENTS \cup llm.options.agents :
        WriteToolsOf(a) =
            CASE a.name = "triager" -> {}
              [] a.name = "planner" -> {"create_issue", "create_decision"}
              [] a.name = "reporter" -> {"add_comment"}
              [] a.name = "worker" -> {"update_issue", "start_issue_work", "log_work"}

(* The session is entered: the runtime holds a triager without write     *)
(* tools and a planner with two.                                          *)
C31_Witness ==
    /\ session._client /\ llm.opens = 1
    /\ \E a \in llm.options.agents : a.name = "triager" /\ WriteToolsOf(a) = {}
    /\ \E a \in llm.options.agents : a.name = "planner" /\ Cardinality(WriteToolsOf(a)) = 2

----------------------------------------------------------------------------
(* Claims about closing the client *)

(* A step that is a call of close() or of close_http_client(). *)
CloseCall(op) == closes'.n = closes.n + 1 /\ closes'.op = op

\* C32: close() leaves the client without a transport; on a client whose
\* transport was never created or is already closed it calls no aclose()
\* and changes nothing; close_http_client() without a singleton changes
\* nothing; and every request issued, also after a close, finds a
\* transport created for it.
C32_CloseIdempotent ==
    [][/\ CloseCall("close") =>
             /\ transport' = "none"
             /\ closes'.aclosed = closes.aclosed + IF transport = "open" THEN 1 ELSE 0
             /\ UNCHANGED <<consecutive_failures, circuit_open_until, hc, _default_client>>
       /\ CloseCall("close_http_client") /\ ~_default_client =>
             /\ closes'.aclosed = closes.aclosed
             /\ UNCHANGED <<clientVars, hc, _default_client>>
       /\ (\E s \in HttpSlots : hc'[s].reqs = hc[s].reqs + 1) => transport' = "open"]_vars

(* The client was used and closed, two more closing calls did nothing,   *)
(* and a second request has a new transport.                              *)
C32_Witness ==
    /\ closes.n = 3 /\ closes.aclosed = 1 /\ closes.op = "close_http_client"
    /\ ~_default_client
    /\ ncalls = 2 /\ hc[1].reqs = 1 /\ transport = "open"

----------------------------------------------------------------------------
(* Claims about the helpers *)

RECURSIVE SumOver(_, _)
SumOver(f, keys) ==
    IF keys = {} THEN 0
    ELSE LET k == CHOOSE x \in keys : TRUE IN f[k] + SumOver(f, keys \ {k})

HighPriorityOpen(issue) ==
    issue.priority \in {"critical", "high"} /\ issue.status \notin {"closed", "done"}

RECURSIVE KeysOf(_)
KeysOf(list) == IF list = <<>> THEN <<>> ELSE <<Head(list).key>> \o KeysOf(Tail(list))

RECURSIVE IssueKeysOf(_)
IssueKeysOf(list) ==
    IF list = <<>> THEN <<>> ELSE <<Head(list).issue_key>> \o IssueKeysOf(Tail(list))

\* C33: the summary of a list of issues has total_issues equal to the
\* length of the list, one count per distinct status, each the number of
\* issues with that status, the counts summing to total_issues, and in
\* high_priority_open exactly the issues with priority critical or high
\* and a status other than closed and done, in the order of the list.
C33_SummaryCounts ==
    direct.fn = "project_status_summary" =>
        LET issues == direct.input
            out == direct.output
        IN /\ out.total_issues = Len(issues)
           /\ DOMAIN out.by_status = {issues[i].status : i \in DOMAIN issues}
           /\ \A st \in DOMAIN out.by_status :
                 out.by_status[st] =
                     Cardinality({i \in DOMAIN issues : issues[i].status = st})
           /\ SumOver(out.by_status, DOMAIN out.by_status) = out.total_issues
           /\ KeysOf(out.high_priority_open) =
                 IssueKeysOf(SelectSeq(issues, HighPriorityOpen))
           /\ \A i \in DOMAIN out.high_priority_open :
                 HighPriorityOpen(out.high_priority_open[i])

(* Two issues, K2 high and open before K1 critical and done: one count   *)
(* per status and K2 alone in high_priority_open.                         *)
C33_Witness ==
    /\ direct.fn = "project_status_summary"
    /\ Len(direct.input) = 2
    /\ direct.input[1] = [issue_key |-> "K2", priority |-> "high", status |-> "open"]
    /\ direct.input[2] = [issue_key |-> "K1", priority |-> "critical", status |-> "done"]
    /\ direct.output.total_issues = 2
    /\ Len(direct.output.high_priority_open) = 1
    /\ direct.output.high_priority_open[1].key = "K2"

\* C34: in input_summary a value is written unchanged exactly when its
\* string form has at most 200 characters; a longer value is written as
\* its first 200 characters followed by the ellipsis; and the ellipsis
\* follows only when characters were cut.
C34_SummaryTruncation ==
    direct.fn = "input_summary" =>
        LET n == direct.input
            out == direct.output
        IN /\ (out = [chars |-> n, ellipsis |-> FALSE]) <=> (n <= 200)
           /\ n > 200 => out = [chars |-> 200, ellipsis |-> TRUE]
           /\ out.ellipsis => out.chars < n

(* The patterns, in list order, whose lower-cased form occurs in the      *)
(* lower-cased command.                                                   *)
MatchingPatterns(command) ==
    {k \in DOMAIN DESTRUCTIVE_PATTERNS :
        Contains(Lower(Chars(command)), Lower(Chars(DESTRUCTIVE_PATTERNS[k])))}

(* C35: block_destructive_commands denies exactly when the lower-cased    *)
(* command contains the lower-cased form of at least one entry of         *)
(* DESTRUCTIVE_PATTERNS, the deny reason names the first such entry in    *)
(* list order, and a command matching none (the empty command of an input *)
(* without one included) gets the neutral continue.                       *)
C35_DestructiveDeny ==
    direct.fn = "block_destructive_commands" =>
        IF MatchingPatterns(direct.input) # {}
        THEN /\ direct.output.decision = "deny"
             /\ \E k \in MatchingPatterns(direct.input) :
                   /\ \A j \in MatchingPatterns(direct.input) : k <= j
                   /\ direct.output.reason[2] = DESTRUCTIVE_PATTERNS[k]
        ELSE direct.output = Continue

(* A command holding two patterns, the later-listed one first in the      *)
(* text, was denied.                                                      *)
C35_Witness ==
    /\ direct.fn = "block_destructive_commands"
    /\ direct.input = "git push --force; rm -rf x"
    /\ Cardinality(MatchingPatterns(direct.input)) >= 2
    /\ direct.output.decision = "deny"

----------------------------------------------------------------------------
(* Claims about the circuit of one client *)

(* C36: the circuit leaves OPEN only when its recovery deadline elapses:  *)
(* no step taken while the deadline is still ahead, a successful          *)
(* response included, clears the deadline.                                *)
C36_OpenUntilDeadline == [][CircuitOpen => circuit_open_until' # {}]_vars

(* The step is a round trip of a direct call that did not end in a        *)
(* successful response.                                                   *)
FailedAttempt == RequestIssued /\ Class(attempts'.last) # "ok"

(* The step ends a call that failed on its first attempt and on every    *)
(* retry it is allowed.                                                   *)
FailedOnEveryAttempt ==
    /\ \E s \in Slots : CallReturns(s)
    /\ RequestIssued
    /\ Len(attempts'.outs) = 1 + max_retries
    /\ \A i \in DOMAIN attempts'.outs : attempts'.outs[i] # "ok"

(* C37: every failed attempt, a retried one as well as the final one,     *)
(* increments the consecutive-failure counter by one, and a call that     *)
(* fails on all of its 1 + max_retries attempts, with                     *)
(* 1 + max_retries >= circuit_threshold, leaves the circuit open.         *)
C37_EveryFailedAttemptCounts ==
    [][/\ FailedAttempt => consecutive_failures' = consecutive_failures + 1
       /\ (FailedOnEveryAttempt /\ 1 + max_retries >= circuit_threshold)
             => circuit_open_until' # {}]_vars

----------------------------------------------------------------------------
(* Claims about the rate-limit windows *)

NonDecreasing(timestamps) ==
    \A i \in DOMAIN timestamps : \A j \in DOMAIN timestamps :
        i < j => timestamps[i] <= timestamps[j]

(* C38: in every reachable state the window of each tool holds its        *)
(* admission timestamps in non-decreasing order and holds at most         *)
(* MAX_CALLS_PER_MINUTE of them.                                          *)
C38_WindowsOrderedAndBounded ==
    \A t \in HookToolNames :
        /\ NonDecreasing(_call_timestamps[t])
        /\ Len(_call_timestamps[t]) <= MAX_CALLS_PER_MINUTE

(* A window is full with admissions of two different times, and a check   *)
(* of its tool has just been denied.                                      *)
C38_Witness ==
    \E t \in HookToolNames :
        /\ Len(_call_timestamps[t]) = MAX_CALLS_PER_MINUTE
        /\ Len(_call_timestamps[t]) >= 2
        /\ _call_timestamps[t][1] < _call_timestamps[t][2]
        /\ rate_result.tool = t
        /\ rate_result.outcome.decision = "deny"

(* C39: with circuit_threshold >= 1 the open-until deadline is set        *)
(* exactly when the consecutive-failure counter has reached               *)
(* circuit_threshold, and a call is short-circuited only by a client      *)
(* whose counter has reached it.                                          *)
C39_DeadlineIffThreshold ==
    circuit_threshold >= 1 =>
        /\ circuit_open_until # {} <=> consecutive_failures >= circuit_threshold
        /\ \A s \in Slots :
              hc[s].res = CircuitOpenError => consecutive_failures >= circuit_threshold

(* A call has been short-circuited by a client that needed two failures   *)
(* to open.                                                               *)
C39_Witness ==
    /\ circuit_threshold = 2
    /\ circuit_open_until # {}
    /\ consecutive_failures >= circuit_threshold
    /\ \E s \in Slots : hc[s].res = CircuitOpenError

----------------------------------------------------------------------------
(* Claims about several agents in one process *)

(* The allow-list of an agent scoped to project_id *)
ScopedTo(project_id) == [none |-> FALSE, ids |-> {project_id}]

(* C40: when an agent with scope P has been constructed and the scope     *)
(* gate reads the allow-list {P}, the construction of another agent,      *)
(* with another scope or with none, leaves the allow-list the gate reads  *)
(* at {P}.                                                                *)
C40_ScopeIsolation ==
    [][(/\ Constructs
        /\ agent.exists /\ agent.project_id # ""
        /\ _get_allowed_project_ids = ScopedTo(agent.project_id))
          => _get_allowed_project_ids' = ScopedTo(agent.project_id)]_vars

====
